---- MODULE Spec2Model ----
(***************************************************************************)
(* State-machine model of the ASEQ LR1 spectrometer driver                 *)
(* (aseq_spectrometer.py, aseq_datastructures.py).                         *)
(*                                                                         *)
(* The driver is modelled at the granularity of one USB transfer per step. *)
(* Each group of operations has its own specification:                     *)
(*   SpecFlash  read_flash / write_flash against the device flash          *)
(*   SpecFrame  get_raw_frame reassembly                                   *)
(*   SpecCal    Calibration.from_bytes / to_bytes                          *)
(*   SpecOpen   the open sequence with its calibration load                *)
(*   SpecConc   two callers sharing one session                            *)
(*   SpecCapture  get_raw_frame on a session opened without calibration    *)
(*   SpecGrab   the one-reply commands and grab_one                        *)
(*   SpecCore   the flash operations and the commands on one session       *)
(***************************************************************************)
EXTENDS Integers, Sequences, FiniteSets, TLC

(***************************************************************************)
(* Program constants (aseq_datastructures.py)                              *)
(***************************************************************************)
ZERO_REPORT_ID == 0
PACKET_SIZE_BYTES == 64
MAX_PACKETS_IN_FRAME == 124
REMAINING_PACKETS_ERROR == 250
NUM_OF_PIXELS_IN_PACKET == 30
FLASH_MAX_READ_PACKETS == 100
FLASH_MAX_WRITE_BYTES == 58
FLASH_MAX_OFFSET == 131071
FLASH_MAX_BYTES == 131072
CALIBRATION_LINES == 10975

\* ReplyCode values used by the modelled operations
REPLY_status == 129
REPLY_set_exposure == 130
REPLY_set_acquisition_parameters == 131
REPLY_set_frame_format == 132
REPLY_set_external_trigger == 133
REPLY_set_software_trigger == 134
REPLY_clear_memory == 135
REPLY_get_frame_format == 136
REPLY_get_acquisition_parameters == 137
REPLY_get_frame == 138
REPLY_read_flash == 154
REPLY_write_flash == 155
REPLY_erase_flash == 156

\* Status
Status_idle == 0
Status_in_progress == 1
Status_memory_full == 2

(***************************************************************************)
(* Bounds of the model                                                     *)
(***************************************************************************)
\* write_flash is tried with data of up to MaxChunks full chunks (+-1 byte)
MaxChunks == 2
\* read_flash is tried with up to MaxReadPackets full packets (+-1 byte)
MaxReadPackets == 2
\* number of write_flash calls in one run (reads are not limited)
MaxWrites == 1

(***************************************************************************)
(* Python list helpers.  Python indexes from 0, sequences here from 1:     *)
(* Python's a[i] is a[i+1] here.                                           *)
(***************************************************************************)
Min(a, b) == IF a <= b THEN a ELSE b
Max(a, b) == IF a >= b THEN a ELSE b

\* math.ceil(n / d) for n >= 0, d > 0
CeilDiv(n, d) == (n + d - 1) \div d

\* Python's normalisation of a slice bound against a list of length n
SliceIndex(i, n) == IF i < 0 THEN Max(i + n, 0) ELSE Min(i, n)

\* a[lo:hi]
Slice(a, lo, hi) ==
  LET l == SliceIndex(lo, Len(a))
      h == SliceIndex(hi, Len(a))
  IN  IF h <= l THEN << >> ELSE SubSeq(a, l + 1, h)

\* a[lo:hi] = x  (the list grows or shrinks when Len(x) # hi - lo)
SliceAssign(a, lo, hi, x) ==
  LET l == SliceIndex(lo, Len(a))
      h == Max(SliceIndex(hi, Len(a)), l)
  IN  SubSeq(a, 1, l) \o x \o SubSeq(a, h + 1, Len(a))

\* [0] * n
Zeros(n) == [i \in 1..n |-> 0]

(***************************************************************************)
(* State                                                                   *)
(***************************************************************************)
VARIABLES
  \* --- transport and device ------------------------------------------
  usb_writes,     \* device.write calls made by the operation in progress
  usb_reads,      \* device.read calls made by the operation in progress
  dev,            \* the request the device is answering, and how far it got
  flash,          \* device flash: address -> byte, unwritten addresses absent
  \* --- read_flash / write_flash ---------------------------------------
  fpc,            \* position of the caller in the flash operation
  fcall,          \* the call: op, bytes_to_read, data_bytes, abs_offset
  rf,             \* read_flash locals
  wf,             \* write_flash locals
  fret,           \* outcome of the last flash call
  faithful,       \* the device answered every transfer of this call faithfully
  lastWrite,      \* last write_flash call and whether it completed
  nWrites,        \* write_flash calls made so far
  \* --- get_raw_frame ---------------------------------------------------
  frame_format,   \* LR1.frame_format, the cached FrameFormat
  gpc,            \* position of the caller in get_raw_frame
  gcall,          \* the call: op, buffer_index, offset
  gf,             \* get_raw_frame locals
  gret,           \* outcome of the last get_raw_frame call
  delivered,      \* packets of the frame (by index) the device has sent
  gfaithful,      \* every packet so far was a new packet of the frame with
                  \* the right packets_remaining
  shuffled,       \* some packet arrived out of pixel_offset order
  \* --- Calibration codec ------------------------------------------------
  blob,           \* the calibration block the device flash holds
  cpc,            \* position in the parse / serialize / parse sequence
  calX,           \* outcome of Calibration().from_bytes(raw)
  report,         \* calX.to_bytes(), as lines
  calY,           \* outcome of Calibration().from_bytes(calX.to_bytes())
  \* --- The session: LR1.__init__, _open, _close ---------------------------
  connected,      \* LR1.connected
  status,         \* LR1.status and LR1.frames_in_mem (assigned together)
  parameters,     \* LR1.parameters
  calibration,    \* LR1.calibration
  external_trigger, \* LR1.external_trigger
  opc,            \* position in _open / _close
  oexc,           \* the exception _open raised, if any
  flash_read,     \* what read_flash did inside get_calibration, this session
  cal_log,        \* what get_calibration caught and logged, this session
  reset_log,      \* what reset() did inside _open, this session
  \* --- Two threads on one session ----------------------------------------
  th,             \* per thread: position, operation, locals, result
  inq,            \* packets the device has queued on EP_IN, oldest first
  taken,          \* (call that read a packet, call the packet answers)
  \* --- The one-reply commands and grab_one --------------------------------
  xpc,            \* position of the caller in the method
  xcall,          \* the call: op, arg
  xcur,           \* the method whose transfer comes next (grab_one calls several)
  xret,           \* outcome of the last call
  polls,          \* what grab_one has done so far: waits, status requests,
                  \* get_raw_frame calls, status replies, requests written;
                  \* k and the busy status of its capture
  capture,        \* the device: status reads it will still answer busy, the
                  \* status after them, frames in memory; its exposure and
                  \* its frame format
  ep_in,          \* packets on EP_IN no read has taken yet, oldest first
  awaiting,       \* methods whose request this call has sent and whose reply
                  \* no read has taken yet
  \* --- apply_irradiance_calibration ---------------------------------------
  ipc,            \* position of the caller
  iraw,           \* raw_spectra
  iret,           \* outcome of the call
  \* --- RPIController (main.py) ---------------------------------------------
  operation_thread, \* RPIController.operation_thread: 0 (None) or a thread
  stop_operation, \* RPIController.stop_operation, the Event, set or not
  pump,           \* the pump DAC output is on
  relay,          \* the relay pin is on
  boost,          \* the boost pin is on
  ops,            \* per thread: alive or not, its sequence and position
  ui,             \* per caller: position in start_operation / abort_operation
  \* --- Google Drive upload (main.py) ----------------------------------------
  gdrive_upload_lock, \* the Lock is held
  manual,         \* per manual trigger: position of its upload thread
  scheduler       \* position of the scheduler thread, and its uploads so far

transportVars == <<usb_writes, usb_reads, dev>>
flashVars == <<flash, fpc, fcall, rf, wf, fret, faithful, lastWrite, nWrites>>
frameVars == <<frame_format, gpc, gcall, gf, gret, delivered, gfaithful, shuffled>>
calLocals == <<cpc, calX, report, calY>>
calVars == <<blob, calLocals>>
frameLocals == <<gpc, gcall, gf, gret, delivered, gfaithful, shuffled>>
sessVars == <<connected, status, parameters, calibration, external_trigger,
              opc, oexc, flash_read, cal_log, reset_log>>
concVars == <<th, inq, taken>>
irrVars == <<ipc, iraw, iret>>
ctlVars == <<operation_thread, stop_operation, pump, relay, boost, ops, ui>>
gdVars == <<gdrive_upload_lock, manual, scheduler>>
appVars == <<ctlVars, gdVars>>
cmdVars == <<xpc, xcall, xcur, xret, polls, capture, ep_in, awaiting>>

vars == <<transportVars, flashVars, frameVars, calVars, sessVars, concVars, irrVars, cmdVars,
          appVars>>

\* what the flash operations leave alone
notFlash == <<frameVars, calVars, sessVars, concVars, irrVars, cmdVars, appVars>>
\* what get_raw_frame leaves alone
notFrame == <<flashVars, calVars, sessVars, concVars, irrVars, cmdVars, appVars>>
\* what the calibration codec leaves alone
notCal == <<transportVars, flashVars, frameVars, sessVars, concVars, irrVars, cmdVars, appVars>>
\* what _open and _close leave alone besides the session's fields
notSess == <<transportVars, flashVars, frameLocals, calVars, concVars, irrVars, cmdVars, appVars>>
\* what the two threads leave alone
notConc == <<transportVars, flashVars, frameVars, calVars, connected, parameters,
             calibration, external_trigger, opc, oexc, flash_read, cal_log, reset_log,
             cmdVars, irrVars, appVars>>
\* what the one-reply commands leave alone besides the transport, the session's
\* fields and the frame format
notCmd == <<flashVars, frameLocals, calVars, concVars, irrVars, appVars>>
\* what the controller leaves alone
notCtl == <<transportVars, flashVars, frameVars, calVars, sessVars, concVars, irrVars,
            cmdVars, gdVars>>
\* what the uploads leave alone
notGd == <<transportVars, flashVars, frameVars, calVars, sessVars, concVars, irrVars,
           cmdVars, ctlVars>>

(***************************************************************************)
(* Outcomes of a call                                                      *)
(***************************************************************************)
NoValue == << >>
Returned(v) == [exc |-> "none", msg |-> "", value |-> v]
Raised(e, m) == [exc |-> e, msg |-> m, value |-> NoValue]

MSG_POSITIVE == "Length and offset must be positive"
MSG_OFFSET == "offset greater than maximum"
MSG_LENGTH == "length + offset greater than maximum"
MSG_DEVICE == "Device error when sending packets."
MSG_DROPPED == "Remaining packets error.  Packet dropped?"
MSG_TOO_MANY == "Too many packets to get"
MSG_READ == "USB read error"
MSG_WRITE == "Unable to write to device"
MSG_REPLY == "Incorrect reply"

(***************************************************************************)
(* Transport: LR1._receive                                                 *)
(* A transfer on EP_IN either fails (usb.core.USBError) or delivers one    *)
(* packet; the packet is accepted when its leading byte is the expected    *)
(* reply code.                                                             *)
(***************************************************************************)
USBError == [usb_error |-> TRUE, code |-> 0, offset |-> 0, remaining |-> 0,
             payload |-> << >>]
Packet(c, o, r, p) == [usb_error |-> FALSE, code |-> c, offset |-> o,
                       remaining |-> r, payload |-> p]

\* _receive without the comparison of reply[0]
_receive_AnyCode(correct_reply, transfer) ==
  IF transfer.usb_error THEN Raised("OSError", MSG_READ)
  ELSE Returned(transfer)

_receive(correct_reply, transfer) ==
  IF transfer.usb_error THEN Raised("OSError", MSG_READ)
  ELSE IF transfer.code = correct_reply THEN Returned(transfer)
  ELSE Raised("OSError", MSG_REPLY)

(***************************************************************************)
(* LR1._check_flash_parameters                                             *)
(***************************************************************************)
\* the check without its last test
_check_flash_parameters_NoSum(length, offset) ==
  IF length < 0 \/ offset < 0 THEN Raised("ValueError", MSG_POSITIVE)
  ELSE IF offset > FLASH_MAX_OFFSET THEN Raised("ValueError", MSG_OFFSET)
  ELSE Returned(NoValue)

_check_flash_parameters(length, offset) ==
  IF length < 0 \/ offset < 0 THEN Raised("ValueError", MSG_POSITIVE)
  ELSE IF offset > FLASH_MAX_OFFSET THEN Raised("ValueError", MSG_OFFSET)
  ELSE IF offset + length > FLASH_MAX_BYTES THEN Raised("ValueError", MSG_LENGTH)
  ELSE Returned(NoValue)

(***************************************************************************)
(* The device's flash                                                      *)
(***************************************************************************)
\* What the flash holds where this run has not written: the content the device
\* came with, different from one address to the next
FactoryByte(addr) == (5 + 7 * addr) % 253

\* the device erased: every address not written since holds 0xFF
ErasedFlash == (-1 :> 255)

FlashByte(fl, addr) ==
  IF addr \in DOMAIN fl THEN fl[addr]
  ELSE IF -1 \in DOMAIN fl THEN fl[-1]
  ELSE FactoryByte(addr)

\* The device stores the payload of a write_flash request at its offset
FlashStore(fl, offset, payload) ==
  LET new == offset..(offset + Len(payload) - 1)
  IN  [a \in DOMAIN fl \cup new |->
         IF a \in new THEN payload[a - offset + 1] ELSE fl[a]]

\* The k-th (from 0) reply of the device to read_flash(offset, batch):
\* local offset relative to the request, packets still to come, 60 bytes
FlashReply(fl, offset, batch, k) ==
  LET payload_size == PACKET_SIZE_BYTES - 4
  IN  Packet(REPLY_read_flash, k * payload_size, batch - k - 1,
             [j \in 1..payload_size |->
                FlashByte(fl, offset + k * payload_size + j - 1)])

\* What the last device.read of the request in progress delivered, and the
\* reply code _receive was called with
Rx(correct_reply, transfer) == [correct_reply |-> correct_reply, transfer |-> transfer]
NoRx == Rx(0, USBError)

\* A request as the device holds it while it answers: the request's kind and
\* fields, the number of reply packets it has put on EP_IN, and the last one
Request(kind, offset, index, batch) ==
  [kind |-> kind, offset |-> offset, index |-> index, batch |-> batch, sent |-> 0,
   rx |-> NoRx]
NoRequest == Request("none", 0, 0, 0)

(***************************************************************************)
(* Inputs of the flash operations                                          *)
(***************************************************************************)
PAYLOAD_SIZE == PACKET_SIZE_BYTES - 4

FlashOffsets ==
  {-1, 7, FLASH_MAX_BYTES - (FLASH_MAX_WRITE_BYTES + 1),
   FLASH_MAX_OFFSET, FLASH_MAX_BYTES}

WriteLengths ==
  {0, 1} \cup {k * FLASH_MAX_WRITE_BYTES + d : k \in 1..MaxChunks, d \in {-1, 0, 1}}

ReadLengths ==
  {-1} \cup WriteLengths
       \cup {k * PAYLOAD_SIZE + d : k \in 1..MaxReadPackets, d \in {-1, 0, 1}}

\* one length that needs a full batch, one that needs a second batch
BatchLengths == {FLASH_MAX_READ_PACKETS * PAYLOAD_SIZE + d : d \in {0, 1}}
BatchOffset == 7

\* Batch-sized reads are tried on a flash this run has not written
ReadInputs ==
  (ReadLengths \X FlashOffsets)
    \cup (IF nWrites = 0 THEN BatchLengths \X {BatchOffset} ELSE {})
WriteInputs == WriteLengths \X FlashOffsets

\* The bytes handed to write_flash: position-dependent, so that a misplaced
\* or repeated chunk shows
DataBytes(length) == [i \in 1..length |-> (11 + 3 * i) % 251]

rfNone == [packets_to_get |-> 0, buffer |-> << >>, offset_increment |-> 0,
           packet_batch |-> 0, packets_remaining |-> 0, packets_received |-> 0]
wfNone == [bytes_remaining |-> 0, read_offset |-> 0, write_offset |-> 0,
           payload_size |-> 0, written |-> << >>]
NoCall == [op |-> "none", bytes_to_read |-> 0, data_bytes |-> << >>, abs_offset |-> 0]
NoWrite == [data |-> << >>, offset |-> 0, done |-> FALSE, stored |-> FALSE]

FlashInit ==
  /\ flash = << >>
  /\ fpc = "idle"
  /\ fcall = NoCall
  /\ rf = rfNone
  /\ wf = wfNone
  /\ fret = Returned(NoValue)
  /\ faithful = TRUE
  /\ lastWrite = NoWrite
  /\ nWrites = 0

TransportInit ==
  /\ usb_writes = 0
  /\ usb_reads = 0
  /\ dev = NoRequest

\* An exception leaves the operation: its locals are gone
FlashRaise(outcome) ==
  /\ fret' = outcome
  /\ fpc' = "ret"
  /\ rf' = rfNone
  /\ wf' = wfNone

(***************************************************************************)
(* LR1.read_flash                                                          *)
(***************************************************************************)
\* Entry: parameter check and the locals set up before the batch loop
ReadFlashCall ==
  /\ UNCHANGED notFlash
  /\ fpc = "idle"
  /\ \E in \in ReadInputs :
       LET bytes_to_read == in[1]
           abs_offset == in[2]
           chk == _check_flash_parameters(bytes_to_read, abs_offset)
           packets_to_get == CeilDiv(bytes_to_read, PAYLOAD_SIZE)
       IN  /\ fcall' = [op |-> "read_flash", bytes_to_read |-> bytes_to_read,
                        data_bytes |-> << >>, abs_offset |-> abs_offset]
           /\ IF chk.exc # "none"
              THEN FlashRaise(chk)
              ELSE /\ rf' = [rfNone EXCEPT
                               !.packets_to_get = packets_to_get,
                               !.buffer = Zeros(packets_to_get * PAYLOAD_SIZE)]
                   /\ fpc' = "rf_loop"
                   /\ UNCHANGED <<wf, fret>>
  /\ usb_writes' = 0
  /\ usb_reads' = 0
  /\ dev' = NoRequest
  /\ faithful' = TRUE
  /\ UNCHANGED <<flash, lastWrite, nWrites>>

\* `while packets_to_get:` is over: return bytearray(buffer[:bytes_to_read])
ReadFlashReturn ==
  /\ UNCHANGED notFlash
  /\ fpc = "rf_loop"
  /\ rf.packets_to_get = 0
  /\ fret' = Returned(Slice(rf.buffer, 0, fcall.bytes_to_read))
  /\ fpc' = "ret"
  /\ rf' = rfNone
  /\ UNCHANGED <<flash, fcall, wf, faithful, lastWrite, nWrites>>
  /\ UNCHANGED transportVars

\* the batch request with abs_offset alone as its address
ReadFlashSend_SameOffset ==
  /\ UNCHANGED notFlash
  /\ fpc = "rf_loop"
  /\ rf.packets_to_get # 0
  /\ LET packet_batch == Min(rf.packets_to_get, FLASH_MAX_READ_PACKETS)
     IN  /\ usb_writes' = usb_writes + 1
         /\ \/ /\ dev' = Request("read_flash", fcall.abs_offset, 0, packet_batch)
               /\ rf' = [rf EXCEPT !.packet_batch = packet_batch,
                                   !.packets_remaining = packet_batch,
                                   !.packets_received = 0]
               /\ fpc' = "rf_recv"
               /\ UNCHANGED <<fret, wf, faithful>>
            \/ /\ FlashRaise(Raised("OSError", MSG_WRITE))
               /\ faithful' = FALSE
               /\ UNCHANGED dev
  /\ UNCHANGED <<flash, fcall, lastWrite, nWrites, usb_reads>>

\* One batch request: send(report) with (abs_offset + offset_increment, packet_batch)
ReadFlashSend ==
  /\ UNCHANGED notFlash
  /\ fpc = "rf_loop"
  /\ rf.packets_to_get # 0
  /\ LET packet_batch == Min(rf.packets_to_get, FLASH_MAX_READ_PACKETS)
     IN  /\ usb_writes' = usb_writes + 1
         /\ \/ /\ dev' = Request("read_flash",
                                 fcall.abs_offset + rf.offset_increment, 0,
                                 packet_batch)
               /\ rf' = [rf EXCEPT !.packet_batch = packet_batch,
                                   !.packets_remaining = packet_batch,
                                   !.packets_received = 0]
               /\ fpc' = "rf_recv"
               /\ UNCHANGED <<fret, wf, faithful>>
            \/ \* device.write raises usb.core.USBError
               /\ FlashRaise(Raised("OSError", MSG_WRITE))
               /\ faithful' = FALSE
               /\ UNCHANGED dev
  /\ UNCHANGED <<flash, fcall, lastWrite, nWrites, usb_reads>>

\* What the device may put on EP_IN for the next read of a read_flash batch:
\* the faithful packet, or one of the faults
ReadFlashTransfers ==
  LET good == FlashReply(flash, dev.offset, dev.batch, dev.sent)
  IN  {good, USBError,
       [good EXCEPT !.code = REPLY_write_flash],
       [good EXCEPT !.remaining = good.remaining + 1],
       [good EXCEPT !.remaining = REMAINING_PACKETS_ERROR],
       [good EXCEPT !.remaining = 255]}
      \cup (IF dev.sent = 0 /\ faithful
            THEN {[good EXCEPT !.offset = good.offset + PAYLOAD_SIZE]}
            ELSE {})

\* The two checks of a reply's packets_remaining, in the order of the code:
\* the device's error values first, then the count of the batch in progress
RemainingCheck_Cumulative(packets_remaining, packet_batch, packets_received) ==
  IF packets_remaining >= REMAINING_PACKETS_ERROR
  THEN Raised("ValueError", MSG_DEVICE)
  ELSE IF ~(packets_remaining =
              rf.packets_to_get - packets_received)
  THEN Raised("OSError", MSG_DROPPED)
  ELSE Returned(NoValue)

RemainingCheck(packets_remaining, packet_batch, packets_received) ==
  IF packets_remaining >= REMAINING_PACKETS_ERROR
  THEN Raised("ValueError", MSG_DEVICE)
  ELSE IF ~(packets_remaining = packet_batch - packets_received)
  THEN Raised("OSError", MSG_DROPPED)
  ELSE Returned(NoValue)

\* One pass of the inner loop: _receive, unpack, the two checks, the copy,
\* and, when the batch is complete, the end of the outer loop body
ReadFlashReceive ==
  /\ UNCHANGED notFlash
  /\ fpc = "rf_recv"
  /\ \E transfer \in ReadFlashTransfers :
       LET reply == _receive(REPLY_read_flash, transfer)
           packets_received == rf.packets_received + 1
           local_offset == transfer.offset
           packets_remaining == transfer.remaining
           data_frame == transfer.payload
           start_offset == rf.offset_increment + local_offset
           end_offset == start_offset + Len(data_frame)
       IN  /\ faithful' = (faithful /\
                           transfer = FlashReply(flash, dev.offset, dev.batch, dev.sent))
           /\ IF reply.exc # "none" THEN FlashRaise(reply)
              ELSE IF RemainingCheck(packets_remaining, rf.packet_batch,
                                     packets_received).exc # "none"
                THEN FlashRaise(RemainingCheck(packets_remaining, rf.packet_batch,
                                               packets_received))
              ELSE /\ UNCHANGED <<fret, wf>>
                   /\ IF packets_remaining > 0
                      THEN /\ rf' = [rf EXCEPT
                                 !.packets_received = packets_received,
                                 !.packets_remaining = packets_remaining,
                                 !.buffer = SliceAssign(rf.buffer, start_offset,
                                                        end_offset, data_frame)]
                           /\ fpc' = "rf_recv"
                      ELSE /\ rf' = [rf EXCEPT
                                 !.packets_received = packets_received,
                                 !.packets_remaining = packets_remaining,
                                 !.buffer = SliceAssign(rf.buffer, start_offset,
                                                        end_offset, data_frame),
                                 !.packets_to_get =
                                    Max(0, rf.packets_to_get - rf.packet_batch),
                                 !.offset_increment =
                                    rf.offset_increment + rf.packet_batch * PAYLOAD_SIZE]
                           /\ fpc' = "rf_loop"
           /\ dev' = [dev EXCEPT !.sent = dev.sent + 1,
                                 !.rx = Rx(REPLY_read_flash, transfer)]
  /\ usb_reads' = usb_reads + 1
  /\ UNCHANGED <<flash, fcall, lastWrite, nWrites, usb_writes>>

(***************************************************************************)
(* LR1.write_flash                                                         *)
(***************************************************************************)
\* Entry: parameter check and the locals set up before the chunk loop
WriteFlashCall ==
  /\ UNCHANGED notFlash
  /\ fpc = "idle"
  /\ nWrites < MaxWrites
  /\ \E in \in WriteInputs :
       LET data_bytes == DataBytes(in[1])
           abs_offset == in[2]
           chk == _check_flash_parameters(Len(data_bytes), abs_offset)
       IN  /\ fcall' = [op |-> "write_flash", bytes_to_read |-> 0,
                        data_bytes |-> data_bytes, abs_offset |-> abs_offset]
           /\ lastWrite' = [data |-> data_bytes, offset |-> abs_offset,
                            done |-> FALSE, stored |-> FALSE]
           /\ IF chk.exc # "none"
              THEN FlashRaise(chk)
              ELSE /\ wf' = [wfNone EXCEPT !.bytes_remaining = Len(data_bytes),
                                           !.read_offset = 0,
                                           !.write_offset = abs_offset]
                   /\ fpc' = "wf_loop"
                   /\ UNCHANGED <<rf, fret>>
  /\ nWrites' = nWrites + 1
  /\ usb_writes' = 0
  /\ usb_reads' = 0
  /\ dev' = NoRequest
  /\ faithful' = TRUE
  /\ UNCHANGED flash

\* `while bytes_remaining:` is over: the call returns None
WriteFlashReturn ==
  /\ UNCHANGED notFlash
  /\ fpc = "wf_loop"
  /\ wf.bytes_remaining = 0
  /\ fret' = Returned(NoValue)
  /\ fpc' = "ret"
  /\ wf' = wfNone
  /\ lastWrite' = [lastWrite EXCEPT !.done = TRUE, !.stored = faithful]
  /\ UNCHANGED <<flash, fcall, rf, faithful, nWrites>>
  /\ UNCHANGED transportVars

\* RequestCode.write_flash
REQUEST_write_flash == 27

\* struct.pack("<I", n)
PackU32(n) ==
  << n % 256, (n \div 256) % 256, (n \div 65536) % 256, (n \div 16777216) % 256 >>

\* struct.pack("<BBIB" + "B" * payload_size, ZERO_REPORT_ID, code,
\* write_offset, payload_size, *payload)
WriteFlashReport(write_offset, payload) ==
  << ZERO_REPORT_ID, REQUEST_write_flash >> \o PackU32(write_offset)
    \o << Len(payload) >> \o payload

\* send handing the report to device.write as it is
send_WithReportId(bytes) == bytes

\* send: the bytes given to device.write, the report without its first byte
\* when that byte is ZERO_REPORT_ID
send(bytes) ==
  IF Len(bytes) > 0 /\ bytes[1] = ZERO_REPORT_ID THEN Tail(bytes) ELSE bytes

\* One chunk request: send(report) with (write_offset, payload_size, payload).
\* A device that received the request stores the chunk; a faulty one may
\* acknowledge the first chunk without storing it.
WriteFlashSend ==
  /\ UNCHANGED notFlash
  /\ fpc = "wf_loop"
  /\ wf.bytes_remaining # 0
  /\ LET payload_size == Min(wf.bytes_remaining, FLASH_MAX_WRITE_BYTES)
         payload == Slice(fcall.data_bytes, wf.read_offset,
                          wf.read_offset + payload_size)
     IN  /\ usb_writes' = usb_writes + 1
         /\ \/ /\ dev' = Request("write_flash", wf.write_offset, 0, 1)
               /\ flash' = FlashStore(flash, wf.write_offset, payload)
               /\ wf' = [wf EXCEPT !.payload_size = payload_size,
                                   !.written = send(WriteFlashReport(wf.write_offset,
                                                                     payload))]
               /\ fpc' = "wf_recv"
               /\ UNCHANGED <<fret, rf, faithful>>
            \/ /\ wf.read_offset = 0
               /\ dev' = Request("write_flash", wf.write_offset, 0, 1)
               /\ wf' = [wf EXCEPT !.payload_size = payload_size,
                                   !.written = send(WriteFlashReport(wf.write_offset,
                                                                     payload))]
               /\ fpc' = "wf_recv"
               /\ faithful' = FALSE
               /\ UNCHANGED <<fret, rf, flash>>
            \/ \* device.write raises usb.core.USBError
               /\ FlashRaise(Raised("OSError", MSG_WRITE))
               /\ faithful' = FALSE
               /\ UNCHANGED <<dev, flash>>
  /\ UNCHANGED <<fcall, lastWrite, nWrites, usb_reads>>

\* write_flash with the write offset left where it was
WriteFlashAdvance_SameOffset(w) ==
  [w EXCEPT !.read_offset = w.read_offset + w.payload_size,
            !.bytes_remaining = Max(0, w.bytes_remaining - w.payload_size)]

\* write_flash reading every chunk from the start of the data
WriteFlashAdvance_SameReadOffset(w) ==
  [w EXCEPT !.write_offset = w.write_offset + w.payload_size,
            !.bytes_remaining = Max(0, w.bytes_remaining - w.payload_size)]

\* The end of the chunk loop's body: both offsets move on by the chunk
WriteFlashAdvance(w) ==
  [w EXCEPT !.read_offset = w.read_offset + w.payload_size,
            !.write_offset = w.write_offset + w.payload_size,
            !.bytes_remaining = Max(0, w.bytes_remaining - w.payload_size)]

WriteFlashTransfers ==
  LET good == Packet(REPLY_write_flash, 0, 0, << >>)
  IN  {good, USBError, [good EXCEPT !.code = REPLY_read_flash]}

\* The reply of one chunk (_send_and_receive's _receive) and the end of the
\* loop body
WriteFlashReceive ==
  /\ UNCHANGED notFlash
  /\ fpc = "wf_recv"
  /\ \E transfer \in WriteFlashTransfers :
       LET reply == _receive(REPLY_write_flash, transfer)
       IN  /\ faithful' = (faithful /\ reply.exc = "none")
           /\ IF reply.exc # "none" THEN FlashRaise(reply)
              ELSE /\ wf' = WriteFlashAdvance(wf)
                   /\ fpc' = "wf_loop"
                   /\ UNCHANGED <<fret, rf>>
           /\ dev' = [dev EXCEPT !.sent = dev.sent + 1,
                                 !.rx = Rx(REPLY_write_flash, transfer)]
  /\ usb_reads' = usb_reads + 1
  /\ UNCHANGED <<flash, fcall, lastWrite, nWrites, usb_writes>>

\* The caller has the value returned and is ready for its next call.  An
\* exception is not caught by the callers of these operations: it ends the run.
FlashReturn ==
  /\ UNCHANGED notFlash
  /\ fpc = "ret"
  /\ fret.exc = "none"
  /\ fpc' = "idle"
  /\ fcall' = NoCall
  /\ fret' = Returned(NoValue)
  /\ usb_writes' = 0
  /\ usb_reads' = 0
  /\ dev' = NoRequest
  /\ faithful' = TRUE
  /\ UNCHANGED <<flash, rf, wf, lastWrite, nWrites>>

FlashNext ==
  \/ ReadFlashCall
  \/ ReadFlashReturn
  \/ ReadFlashSend
  \/ ReadFlashReceive
  \/ WriteFlashCall
  \/ WriteFlashReturn
  \/ WriteFlashSend
  \/ WriteFlashReceive
  \/ FlashReturn

(***************************************************************************)
(* Properties of the flash operations (SpecFlash)                          *)
(***************************************************************************)
CallLength ==
  IF fcall.op = "write_flash" THEN Len(fcall.data_bytes) ELSE fcall.bytes_to_read

OutOfBounds(length, offset) ==
  \/ offset < 0
  \/ length < 0
  \/ offset > FLASH_MAX_OFFSET
  \/ offset + length > FLASH_MAX_BYTES

ValidationMessages == {MSG_POSITIVE, MSG_OFFSET, MSG_LENGTH}

\* C1: a read_flash or write_flash call whose (offset, length) is out of
\* bounds has failed with the validation ValueError and has made no
\* transport call: no device.write, no device.read, nothing asked of the device.
C1_OutOfBoundsRejectedBeforeIO ==
  (fcall.op \in {"read_flash", "write_flash"}
     /\ OutOfBounds(CallLength, fcall.abs_offset))
  => /\ fpc = "ret"
     /\ fret.exc = "ValueError"
     /\ fret.msg \in ValidationMessages
     /\ usb_writes = 0
     /\ usb_reads = 0
     /\ dev = NoRequest

\* a write of data that starts inside the flash and ends beyond it was rejected
C1_Witness ==
  /\ fcall.op = "write_flash"
  /\ fcall.abs_offset = FLASH_MAX_OFFSET
  /\ Len(fcall.data_bytes) = FLASH_MAX_WRITE_BYTES
  /\ fpc = "ret"
  /\ fret.exc = "ValueError"

\* C2: when write_flash(data, offset) has completed on a device that stored
\* every chunk, a read_flash(len(data), offset) that the device answered
\* faithfully returns exactly data.
C2_WriteReadRoundTrip ==
  (/\ fpc = "ret"
   /\ fcall.op = "read_flash"
   /\ lastWrite.done
   /\ lastWrite.stored
   /\ fcall.abs_offset = lastWrite.offset
   /\ fcall.bytes_to_read = Len(lastWrite.data)
   /\ faithful)
  => fret = Returned(lastWrite.data)

\* three chunks written at the last offset that takes them, read back in
\* two packets
C2_Witness ==
  /\ fpc = "ret"
  /\ fcall.op = "read_flash"
  /\ lastWrite.done
  /\ lastWrite.stored
  /\ faithful
  /\ fcall.abs_offset = lastWrite.offset
  /\ fcall.bytes_to_read = Len(lastWrite.data)
  /\ Len(lastWrite.data) = 2 * FLASH_MAX_WRITE_BYTES + 1
  /\ fret = Returned(lastWrite.data)

\* the bytes of one read_flash batch
BATCH_BYTES == FLASH_MAX_READ_PACKETS * PAYLOAD_SIZE

\* C17: a read_flash with valid (length, offset) sends its k-th request
\* (k from 0) for at most 100 packets at device offset offset + 6000*k; when
\* it has returned it has sent ceil(ceil(length/60)/100) requests, received
\* ceil(length/60) packets and returns length bytes, byte i being the flash
\* byte at offset + i when the device answered faithfully; for length 0 it
\* has sent nothing and returns the empty result.
C17_ReadFlashBatches ==
  /\ (fcall.op = "read_flash" /\ fpc = "rf_recv") =>
       /\ dev.kind = "read_flash"
       /\ dev.offset = fcall.abs_offset + BATCH_BYTES * (usb_writes - 1)
       /\ dev.batch >= 1
       /\ dev.batch <= FLASH_MAX_READ_PACKETS
       /\ dev.batch = Min(FLASH_MAX_READ_PACKETS,
                          CeilDiv(fcall.bytes_to_read, PAYLOAD_SIZE)
                            - FLASH_MAX_READ_PACKETS * (usb_writes - 1))
  /\ (fcall.op = "read_flash" /\ fpc = "ret" /\ fret.exc = "none") =>
       /\ usb_writes = CeilDiv(CeilDiv(fcall.bytes_to_read, PAYLOAD_SIZE),
                               FLASH_MAX_READ_PACKETS)
       /\ usb_reads = CeilDiv(fcall.bytes_to_read, PAYLOAD_SIZE)
       /\ Len(fret.value) = fcall.bytes_to_read
       /\ faithful =>
            \A i \in 0..(fcall.bytes_to_read - 1) :
               fret.value[i + 1] = FlashByte(flash, fcall.abs_offset + i)
       /\ fcall.bytes_to_read = 0 =>
            (usb_writes = 0 /\ dev = NoRequest /\ fret.value = << >>)

\* C17 witness: a read of 6001 bytes has returned them after two requests
\* and 101 packets
C17_Witness ==
  /\ fcall.op = "read_flash"
  /\ fpc = "ret"
  /\ fret.exc = "none"
  /\ faithful
  /\ fcall.bytes_to_read = BATCH_BYTES + 1
  /\ usb_writes = 2
  /\ usb_reads = FLASH_MAX_READ_PACKETS + 1
  /\ Len(fret.value) = BATCH_BYTES + 1

\* C31: in read_flash the remaining count of a reply is checked per batch:
\* a reply whose packets_remaining is 250 or more fails the read with the
\* device error, one whose packets_remaining is not the batch size minus the
\* packets received in the current batch fails it with the dropped-packet
\* error, a reply with the count of its batch does not fail it; a failed read
\* returns no bytes and sends no further request.
C31_RemainingCheckedPerBatch ==
  [][/\ (/\ fcall.op = "read_flash"
         /\ fpc = "rf_recv"
         /\ usb_reads' = usb_reads + 1
         /\ dev'.rx.transfer # USBError
         /\ dev'.rx.transfer.code = REPLY_read_flash)
        => LET packets_remaining == dev'.rx.transfer.remaining
               in_batch == dev.batch - (dev.sent + 1)
           IN  /\ packets_remaining >= REMAINING_PACKETS_ERROR
                    => (fpc' = "ret" /\ fret' = Raised("ValueError", MSG_DEVICE))
               /\ (packets_remaining < REMAINING_PACKETS_ERROR
                     /\ packets_remaining # in_batch)
                    => (fpc' = "ret" /\ fret' = Raised("OSError", MSG_DROPPED))
               /\ packets_remaining = in_batch
                    => (fpc' \in {"rf_recv", "rf_loop"} /\ fret' = fret)
               /\ fpc' = "ret" => (fret'.value = NoValue /\ usb_writes' = usb_writes)
     /\ (fcall.op = "read_flash" /\ fpc = "ret" /\ fret.exc # "none")
        => (usb_writes' = usb_writes /\ fret' = fret)]_vars

\* C31 witness: the only packet of the second batch of a read announced one
\* more packet, and the read failed as a dropped packet
C31_Witness ==
  /\ fcall.op = "read_flash"
  /\ fpc = "ret"
  /\ fret = Raised("OSError", MSG_DROPPED)
  /\ usb_writes = 2
  /\ dev.batch = 1
  /\ dev.rx.transfer # USBError
  /\ dev.rx.transfer.remaining = 1

\* C34: every read_flash request of a call with valid (length, offset)
\* addresses bytes inside the flash only: its offset is at most 0x1FFFF and
\* its offset plus 60 bytes for each packet of the batch is at most 0x20000.
C34_RequestsInsideFlash ==
  (fcall.op = "read_flash" /\ fpc = "rf_recv") =>
    /\ dev.offset <= FLASH_MAX_OFFSET
    /\ dev.offset + PAYLOAD_SIZE * dev.batch <= FLASH_MAX_BYTES

\* what holds instead: a request starts inside the flash and ends less than
\* one packet beyond the last byte asked for
C34_RequestsInsideFlash_WholePackets ==
  (fcall.op = "read_flash" /\ fpc = "rf_recv") =>
    /\ dev.offset <= FLASH_MAX_OFFSET
    /\ dev.offset + PAYLOAD_SIZE * dev.batch
         < fcall.abs_offset + fcall.bytes_to_read + PAYLOAD_SIZE

\* C35: every request write_flash has put on the wire, the report without
\* its leading report id, is at most 64 bytes long: the code, the offset,
\* the chunk size and a chunk of 1 to 58 bytes.
C35_WritePacketFits ==
  (fcall.op = "write_flash" /\ fpc = "wf_recv") =>
    /\ wf.payload_size >= 1
    /\ wf.payload_size <= FLASH_MAX_WRITE_BYTES
    /\ Len(wf.written) = 6 + wf.payload_size
    /\ Len(wf.written) <= PACKET_SIZE_BYTES
    /\ wf.written[1] = REQUEST_write_flash

\* C35 witness: a chunk of 58 bytes went out in a packet of 64 bytes
C35_Witness ==
  /\ fcall.op = "write_flash"
  /\ fpc = "wf_recv"
  /\ wf.payload_size = FLASH_MAX_WRITE_BYTES
  /\ Len(wf.written) = PACKET_SIZE_BYTES

\* the state of a write_flash call between its chunks
C18_ChunkState ==
  /\ (fcall.op = "write_flash" /\ fpc = "wf_recv") =>
       LET i == usb_writes - 1
           length == Len(fcall.data_bytes)
       IN  /\ usb_reads = i
           /\ dev.kind = "write_flash"
           /\ dev.offset = fcall.abs_offset + FLASH_MAX_WRITE_BYTES * i
           /\ wf.read_offset = FLASH_MAX_WRITE_BYTES * i
           /\ wf.payload_size =
                Min(FLASH_MAX_WRITE_BYTES * (i + 1), length) - FLASH_MAX_WRITE_BYTES * i
           /\ wf.payload_size >= 1
           /\ faithful =>
                \A j \in 0..(wf.read_offset + wf.payload_size - 1) :
                   FlashByte(flash, fcall.abs_offset + j) = fcall.data_bytes[j + 1]
  /\ (fcall.op = "write_flash" /\ fpc = "ret" /\ fret.exc = "none") =>
       /\ usb_writes = CeilDiv(Len(fcall.data_bytes), FLASH_MAX_WRITE_BYTES)
       /\ usb_reads = usb_writes
  /\ (fcall.op = "write_flash" /\ fpc = "ret" /\ fret.exc = "OSError") =>
       /\ usb_writes >= 1
       /\ usb_writes <= CeilDiv(Len(fcall.data_bytes), FLASH_MAX_WRITE_BYTES)
       /\ usb_reads \in {usb_writes - 1, usb_writes}

\* C18: write_flash(data, offset) makes ceil(len(data)/58) request/reply
\* exchanges, chunk i carrying data[58*i : min(58*(i+1), len(data))] to
\* device offset offset + 58*i; once an exchange has failed the call has
\* ended with the error and sends and stores nothing more.
C18_WriteFlashChunks ==
  [][/\ C18_ChunkState'
     /\ (fcall.op = "write_flash" /\ fret.exc # "none") =>
          /\ fpc = "ret"
          /\ usb_writes' = usb_writes
          /\ usb_reads' = usb_reads
          /\ flash' = flash
          /\ fret' = fret]_vars

\* C18 witness: the second exchange of a three-chunk write failed on its
\* reply
C18_Witness ==
  /\ fcall.op = "write_flash"
  /\ Len(fcall.data_bytes) = 2 * FLASH_MAX_WRITE_BYTES + 1
  /\ fpc = "ret"
  /\ fret.exc = "OSError"
  /\ usb_writes = 2
  /\ usb_reads = 2

(***************************************************************************)
(* LR1.get_raw_frame                                                       *)
(***************************************************************************)
\* frames of up to MaxShufflePackets packets are delivered in every order,
\* longer ones in pixel_offset order
MaxShufflePackets == 10

\* pixels_in_frame values of the cached frame format: around one and two
\* packets, around the trim, the largest shuffled frame, the detector's own
\* frame (3648 + 46), the largest frame of the protocol and the first beyond it
FrameSizes ==
  {0, 1, NUM_OF_PIXELS_IN_PACKET - 1, NUM_OF_PIXELS_IN_PACKET,
   NUM_OF_PIXELS_IN_PACKET + 1, 46, 47, 75,
   MaxShufflePackets * NUM_OF_PIXELS_IN_PACKET,
   3694,
   MAX_PACKETS_IN_FRAME * NUM_OF_PIXELS_IN_PACKET,
   MAX_PACKETS_IN_FRAME * NUM_OF_PIXELS_IN_PACKET + 1}

\* FrameFormat() as the dataclass builds it, with the device's pixels_in_frame
FrameFormat(pixels_in_frame) ==
  [start_element |-> 1, end_element |-> 10, reduction_mode |-> 0,
   pixels_in_frame |-> pixels_in_frame]

\* The intensity the detector holds at pixel n of the frame
Pixel(n) == (101 + 13 * n) % 65536

\* The pixels of the j-th (from 0) packet of the frame
FramePixels(j) ==
  [i \in 1..NUM_OF_PIXELS_IN_PACKET |-> Pixel(j * NUM_OF_PIXELS_IN_PACKET + i - 1)]

gfNone == [pixels_in_frame |-> 0, packets_to_get |-> 0, frame_buffer |-> << >>,
           packets_remaining |-> 0, packets_received |-> 0, reply |-> USBError]
NoFrameCall == [op |-> "none", buffer_index |-> 0, offset |-> 0]

FrameInit ==
  /\ frame_format \in {FrameFormat(p) : p \in FrameSizes}
  /\ gpc = "idle"
  /\ gcall = NoFrameCall
  /\ gf = gfNone
  /\ gret = Returned(NoValue)
  /\ delivered = {}
  /\ gfaithful = TRUE
  /\ shuffled = FALSE

\* int(math.floor(pixels_in_frame / NUM_OF_PIXELS_IN_PACKET))
PacketsToGet_Floor(pixels_in_frame) == pixels_in_frame \div NUM_OF_PIXELS_IN_PACKET

\* int(math.ceil(pixels_in_frame / NUM_OF_PIXELS_IN_PACKET))
PacketsToGet(pixels_in_frame) == CeilDiv(pixels_in_frame, NUM_OF_PIXELS_IN_PACKET)

\* Entry: packets_to_get and the check against MAX_PACKETS_IN_FRAME
GetRawFrameCall ==
  /\ UNCHANGED notFrame
  /\ gpc = "idle"
  /\ LET pixels_in_frame == frame_format.pixels_in_frame
         packets_to_get == PacketsToGet(pixels_in_frame)
     IN  /\ gcall' = [op |-> "get_raw_frame", buffer_index |-> 0, offset |-> 0]
         /\ gf' = [gfNone EXCEPT !.pixels_in_frame = pixels_in_frame,
                                 !.packets_to_get = packets_to_get]
         /\ IF packets_to_get > MAX_PACKETS_IN_FRAME
            THEN /\ gret' = Raised("ValueError", MSG_TOO_MANY)
                 /\ gpc' = "ret"
            ELSE /\ gpc' = "gf_send"
                 /\ UNCHANGED gret
  /\ usb_writes' = 0
  /\ usb_reads' = 0
  /\ dev' = NoRequest
  /\ delivered' = {}
  /\ gfaithful' = TRUE
  /\ shuffled' = FALSE
  /\ UNCHANGED frame_format

\* send(report) with (offset, buffer_index, packets_to_get), then the locals
\* set up before the receive loop
GetRawFrameSend ==
  /\ UNCHANGED notFrame
  /\ gpc = "gf_send"
  /\ usb_writes' = usb_writes + 1
  /\ \/ /\ dev' = Request("get_frame", gcall.offset, gcall.buffer_index,
                          gf.packets_to_get)
        /\ gf' = [gf EXCEPT !.frame_buffer = Zeros(gf.pixels_in_frame),
                            !.packets_remaining = MAX_PACKETS_IN_FRAME,
                            !.packets_received = 0]
        /\ gpc' = "gf_loop"
        /\ UNCHANGED <<gret, gfaithful>>
     \/ \* device.write raises usb.core.USBError
        /\ gret' = Raised("OSError", MSG_WRITE)
        /\ gpc' = "ret"
        /\ gfaithful' = FALSE
        /\ UNCHANGED <<dev, gf>>
  /\ UNCHANGED <<frame_format, gcall, delivered, shuffled, usb_reads>>

\* frame_buffer[pixel_offset:end_offset] = pixels, placed by arrival count
FrameCopy_ByArrival(frame_buffer, pixel_offset, pixels, packets_received) ==
  SliceAssign(frame_buffer, (packets_received - 1) * Len(pixels),
              packets_received * Len(pixels), pixels)

\* end_offset = pixel_offset + len(pixels)
\* frame_buffer[pixel_offset:end_offset] = pixels
FrameCopy(frame_buffer, pixel_offset, pixels, packets_received) ==
  SliceAssign(frame_buffer, pixel_offset, pixel_offset + Len(pixels), pixels)

\* the loop body with the copy made before the checks
GetRawFrameProcess_CopyFirst(g, transfer) ==
  LET reply == _receive(REPLY_get_frame, transfer)
      packets_received == g.packets_received + 1
      g2 == [g EXCEPT !.packets_received = packets_received,
                      !.packets_remaining = transfer.remaining,
                      !.reply = transfer,
                      !.frame_buffer = FrameCopy(g.frame_buffer, transfer.offset,
                                                 transfer.payload, packets_received)]
  IN  IF reply.exc # "none" THEN [g |-> g, out |-> reply]
      ELSE IF transfer.remaining >= REMAINING_PACKETS_ERROR
        THEN [g |-> g2, out |-> Raised("ValueError", MSG_DEVICE)]
      ELSE IF ~(transfer.remaining = g.packets_to_get - packets_received)
        THEN [g |-> g2, out |-> Raised("OSError", MSG_DROPPED)]
      ELSE [g |-> g2, out |-> Returned(NoValue)]

\* the loop body with the two checks in the other order
GetRawFrameProcess_DropCheckFirst(g, transfer) ==
  LET reply == _receive(REPLY_get_frame, transfer)
      packets_received == g.packets_received + 1
      g2 == [g EXCEPT !.packets_received = packets_received,
                      !.packets_remaining = transfer.remaining,
                      !.reply = transfer]
  IN  IF reply.exc # "none" THEN [g |-> g, out |-> reply]
      ELSE IF ~(transfer.remaining = g.packets_to_get - packets_received)
        THEN [g |-> g2, out |-> Raised("OSError", MSG_DROPPED)]
      ELSE IF transfer.remaining >= REMAINING_PACKETS_ERROR
        THEN [g |-> g2, out |-> Raised("ValueError", MSG_DEVICE)]
      ELSE [g |-> [g2 EXCEPT !.frame_buffer =
                     FrameCopy(g.frame_buffer, transfer.offset, transfer.payload,
                               packets_received)],
            out |-> Returned(NoValue)]

\* One pass of the receive loop's body on the transfer EP_IN delivers:
\* the locals after it, and the exception it raised if any
GetRawFrameProcess(g, transfer) ==
  LET reply == _receive(REPLY_get_frame, transfer)
      packets_received == g.packets_received + 1
      pixel_offset == transfer.offset
      packets_remaining == transfer.remaining
      pixels == transfer.payload
      g2 == [g EXCEPT !.packets_received = packets_received,
                      !.packets_remaining = packets_remaining,
                      !.reply = transfer]
  IN  IF reply.exc # "none" THEN [g |-> g, out |-> reply]
      ELSE IF packets_remaining >= REMAINING_PACKETS_ERROR
        THEN [g |-> g2, out |-> Raised("ValueError", MSG_DEVICE)]
      ELSE IF ~(packets_remaining = g.packets_to_get - packets_received)
        THEN [g |-> g2, out |-> Raised("OSError", MSG_DROPPED)]
      ELSE [g |-> [g2 EXCEPT !.frame_buffer =
                     FrameCopy(g.frame_buffer, pixel_offset, pixels,
                               packets_received)],
            out |-> Returned(NoValue)]

\* The packets of the frame the device may send next
FrameCandidates ==
  IF gf.packets_to_get <= MaxShufflePackets
  THEN (0..(gf.packets_to_get - 1)) \ delivered
  ELSE {j \in {gf.packets_received} : j < gf.packets_to_get}

\* A new packet of the frame with the right packets_remaining
GoodFrameTransfers ==
  {Packet(REPLY_get_frame, j * NUM_OF_PIXELS_IN_PACKET,
          gf.packets_to_get - (gf.packets_received + 1), FramePixels(j)) :
     j \in FrameCandidates}

SetMin(S) == CHOOSE x \in S : \A y \in S : x <= y
SetMax(S) == CHOOSE x \in S : \A y \in S : x >= y

\* What the device may put on EP_IN for the next read of get_raw_frame: a good
\* packet or a fault.  The faults: no packet in time, another reply code, a
\* packets_remaining one too high or one too low, a device error count (at the
\* lowest and at the highest offset still to come; at offset 0 when no packet
\* is to come), and, after packet 0 came first, a repeat of it.
FrameTransfers ==
  LET expected == gf.packets_to_get - (gf.packets_received + 1)
      FaultAt(j) == Packet(REPLY_get_frame, j * NUM_OF_PIXELS_IN_PACKET,
                           IF expected < 0 THEN 0 ELSE expected, FramePixels(j))
      lo == IF FrameCandidates = {} THEN 0 ELSE SetMin(FrameCandidates)
      hi == IF FrameCandidates = {} THEN 0 ELSE SetMax(FrameCandidates)
      base == {FaultAt(lo)}
      wrong == {r \in {expected - 1, expected + 1} :
                  r >= 0 /\ r < REMAINING_PACKETS_ERROR /\ r # expected}
                 \cup (IF expected < 0 THEN {0} ELSE {})
  IN  GoodFrameTransfers
        \cup {USBError}
        \cup {[b EXCEPT !.code = REPLY_status] : b \in base}
        \cup {[b EXCEPT !.remaining = r] : b \in base, r \in wrong}
        \cup {[FaultAt(j) EXCEPT !.remaining = REMAINING_PACKETS_ERROR] : j \in {lo, hi}}
        \cup {[b EXCEPT !.remaining = 255] : b \in base}
        \cup (IF gfaithful /\ delivered = {0} /\ expected >= 0
              THEN {Packet(REPLY_get_frame, j * NUM_OF_PIXELS_IN_PACKET, expected,
                           FramePixels(j)) : j \in delivered}
              ELSE {})

\* `while packets_remaining > 0:` one pass
GetRawFrameReceive ==
  /\ UNCHANGED notFrame
  /\ gpc = "gf_loop"
  /\ gf.packets_remaining > 0
  /\ \E transfer \in FrameTransfers :
       LET step == GetRawFrameProcess(gf, transfer)
       IN  /\ gf' = step.g
           /\ IF step.out.exc # "none"
              THEN gret' = step.out /\ gpc' = "ret"
              ELSE UNCHANGED gret /\ gpc' = "gf_loop"
           /\ gfaithful' = (gfaithful /\ transfer \in GoodFrameTransfers)
           /\ delivered' = IF transfer \in GoodFrameTransfers
                           THEN delivered \cup {transfer.offset \div NUM_OF_PIXELS_IN_PACKET}
                           ELSE delivered
           /\ shuffled' = (shuffled \/
                           (transfer \in GoodFrameTransfers /\
                            transfer.offset # gf.packets_received * NUM_OF_PIXELS_IN_PACKET))
           /\ dev' = [dev EXCEPT !.sent = dev.sent + 1,
                                 !.rx = Rx(REPLY_get_frame, transfer)]
  /\ usb_reads' = usb_reads + 1
  /\ UNCHANGED <<frame_format, gcall, usb_writes>>

\* the return with data = frame_buffer[32:-14]
GetRawFrameReturn_TrimBuffer ==
  /\ UNCHANGED notFrame
  /\ gpc = "gf_loop"
  /\ ~(gf.packets_remaining > 0)
  /\ gret' = Returned(Slice(gf.frame_buffer, 32, -14))
  /\ gpc' = "ret"
  /\ UNCHANGED <<frame_format, gcall, gf, delivered, gfaithful, shuffled>>
  /\ UNCHANGED transportVars

\* The loop is over: data = frame_buffer[32 : pixels_in_frame - 14]
GetRawFrameReturn ==
  /\ UNCHANGED notFrame
  /\ gpc = "gf_loop"
  /\ ~(gf.packets_remaining > 0)
  /\ gret' = Returned(Slice(gf.frame_buffer, 32, gf.pixels_in_frame - 14))
  /\ gpc' = "ret"
  /\ UNCHANGED <<frame_format, gcall, gf, delivered, gfaithful, shuffled>>
  /\ UNCHANGED transportVars

\* The caller has the frame and is ready for its next call.  An exception is
\* not caught by the callers of get_raw_frame: it ends the run.
FrameReturn ==
  /\ UNCHANGED notFrame
  /\ gpc = "ret"
  /\ gret.exc = "none"
  /\ gpc' = "idle"
  /\ gcall' = NoFrameCall
  /\ gf' = gfNone
  /\ gret' = Returned(NoValue)
  /\ delivered' = {}
  /\ gfaithful' = TRUE
  /\ shuffled' = FALSE
  /\ usb_writes' = 0
  /\ usb_reads' = 0
  /\ dev' = NoRequest
  /\ UNCHANGED frame_format

FrameNext ==
  \/ GetRawFrameCall
  \/ GetRawFrameSend
  \/ GetRawFrameReceive
  \/ GetRawFrameReturn
  \/ FrameReturn

(***************************************************************************)
(* Properties of get_raw_frame (SpecFrame)                                 *)
(***************************************************************************)
\* C3: when get_raw_frame has read a stream in which every packet was a new
\* packet of the frame, in whatever order of pixel_offset, with the right
\* packets_remaining, the call has succeeded, the frame buffer holds pixel n
\* of the frame at index n, and the value returned is that buffer from 32 to
\* pixels_in_frame - 14: the same whatever the order of arrival.
C3_ReassemblyAnyOrder ==
  (gpc = "ret" /\ gfaithful /\ usb_reads > 0)
  => /\ gret.exc = "none"
     /\ Len(gf.frame_buffer) >= gf.pixels_in_frame
     /\ \A i \in 1..Len(gf.frame_buffer) : gf.frame_buffer[i] = Pixel(i - 1)
     /\ gret.value = Slice([i \in 1..Len(gf.frame_buffer) |-> Pixel(i - 1)],
                           32, gf.pixels_in_frame - 14)

\* a frame of 300 pixels read from 10 packets that arrived out of order
C3_Witness ==
  /\ gpc = "ret"
  /\ gfaithful
  /\ shuffled
  /\ gf.pixels_in_frame = 300
  /\ gf.packets_received = 10
  /\ gret.exc = "none"

\* The get_frame reply the receive loop has just accepted, if there is one
FrameReplyAccepted ==
  /\ gcall.op = "get_raw_frame"
  /\ ~gf.reply.usb_error
  /\ gf.reply.code = REPLY_get_frame

\* C4: a pass of the receive loop that reads a get_frame reply whose
\* packets_remaining is below 250 and differs from packets_to_get minus the
\* packets received (this one counted) ends the call with the dropped-packet
\* OSError, and leaves the frame buffer as it was before the packet.
C4_DroppedPacketFails ==
  [][(/\ gpc = "gf_loop"
      /\ usb_reads' = usb_reads + 1
      /\ gf'.packets_received = gf.packets_received + 1
      /\ gf'.reply.remaining < REMAINING_PACKETS_ERROR
      /\ gf'.reply.remaining # gf.packets_to_get - gf'.packets_received)
     => (/\ gpc' = "ret"
         /\ gret' = Raised("OSError", MSG_DROPPED)
         /\ gf'.frame_buffer = gf.frame_buffer)]_vars

\* the fourth packet of a frame came with a wrong count
C4_Witness ==
  /\ gpc = "ret"
  /\ gret = Raised("OSError", MSG_DROPPED)
  /\ gf.packets_received = 4
  /\ gf.reply.remaining = gf.packets_to_get - gf.packets_received + 1
  /\ gf.packets_to_get = 10

\* C5: once the receive loop has accepted a get_frame reply with
\* packets_remaining >= 250, the call has failed with the device-error
\* ValueError, whatever the packet's pixel_offset and position in the stream.
C5_DeviceErrorFails ==
  (FrameReplyAccepted /\ gf.reply.remaining >= REMAINING_PACKETS_ERROR)
  => /\ gpc = "ret"
     /\ gret = Raised("ValueError", MSG_DEVICE)

\* a device error count in the sixth packet, at an offset out of order
C5_Witness ==
  /\ FrameReplyAccepted
  /\ gf.reply.remaining = REMAINING_PACKETS_ERROR
  /\ gf.packets_received = 6
  /\ gf.reply.offset # 5 * NUM_OF_PIXELS_IN_PACKET
  /\ gret = Raised("ValueError", MSG_DEVICE)

\* C6: when ceil(pixels_in_frame / 30) exceeds 124, a get_raw_frame call has
\* failed with the validation ValueError without any transport call.
C6_TooManyPacketsBeforeIO ==
  (gcall.op = "get_raw_frame"
     /\ CeilDiv(frame_format.pixels_in_frame, NUM_OF_PIXELS_IN_PACKET)
          > MAX_PACKETS_IN_FRAME)
  => /\ gpc = "ret"
     /\ gret = Raised("ValueError", MSG_TOO_MANY)
     /\ usb_writes = 0
     /\ usb_reads = 0
     /\ dev = NoRequest

\* a frame format one pixel beyond 124 packets
C6_Witness ==
  /\ gcall.op = "get_raw_frame"
  /\ frame_format.pixels_in_frame = MAX_PACKETS_IN_FRAME * NUM_OF_PIXELS_IN_PACKET + 1
  /\ gpc = "ret"
  /\ gret.exc = "ValueError"

\* C19: for every pixels_in_frame with ceil(pixels_in_frame/30) <= 124,
\* pixels_in_frame = 0 included, a get_raw_frame call sends one get_frame
\* request carrying (offset, buffer_index, packets_to_get) and receives
\* exactly packets_to_get = ceil(pixels_in_frame/30) packets, never more,
\* before it returns the frame.
C19_OneRequestThenPackets ==
  (gcall.op = "get_raw_frame"
     /\ PacketsToGet(frame_format.pixels_in_frame) <= MAX_PACKETS_IN_FRAME)
  => /\ usb_writes <= 1
     /\ usb_reads <= PacketsToGet(frame_format.pixels_in_frame)
     /\ gpc = "gf_loop" =>
          dev = [Request("get_frame", gcall.offset, gcall.buffer_index,
                         PacketsToGet(frame_format.pixels_in_frame))
                   EXCEPT !.sent = usb_reads, !.rx = dev.rx]
     /\ (gpc = "ret" /\ gret.exc = "none") =>
          /\ usb_writes = 1
          /\ usb_reads = PacketsToGet(frame_format.pixels_in_frame)

\* C19 for frames of at least one pixel
C19_OneRequestThenPackets_NonEmpty ==
  frame_format.pixels_in_frame >= 1 => C19_OneRequestThenPackets

\* C20: the array a successful get_raw_frame returns from a frame delivered
\* in full has pixels_in_frame - 46 elements, element j being pixel 32 + j of
\* the frame, for every pixels_in_frame >= 46, multiple of 30 or not.
C20_TrimmedFrame ==
  (gpc = "ret" /\ gret.exc = "none" /\ gfaithful /\ gf.pixels_in_frame >= 46)
  => /\ Len(gret.value) = gf.pixels_in_frame - 46
     /\ \A j \in 0..(gf.pixels_in_frame - 47) : gret.value[j + 1] = Pixel(32 + j)

\* C20 witness: a frame of 75 pixels, its three packets out of order, gave
\* the 29 pixels from 32 on
C20_Witness ==
  /\ gpc = "ret"
  /\ gret.exc = "none"
  /\ gfaithful
  /\ shuffled
  /\ gf.pixels_in_frame = 75
  /\ Len(gret.value) = 29
  /\ gret.value[29] = Pixel(60)

(***************************************************************************)
(* Calibration text (aseq_datastructures.py, class Calibration)            *)
(*                                                                         *)
(* The block is text.  A line is the sequence of its whitespace-separated  *)
(* words; a word is an integer literal, a float literal or other text.     *)
(* Floats are counted in millionths.                                       *)
(***************************************************************************)
\* 1.0
ONE == 1000000

StrWord(s) == [t |-> "str", s |-> s, n |-> 0]
IntWord(n) == [t |-> "int", s |-> "", n |-> n]
FloatWord(n) == [t |-> "float", s |-> "", n |-> n]
EmptyLine == << >>

MSG_CAL_LENGTH == "Invalid calibration length."
MSG_FLOAT == "could not convert string to float"
MSG_INT == "invalid literal for int() with base 10"
MSG_INDEX == "list index out of range"
MSG_DECODE == "'utf-8' codec can't decode byte 0xff"

\* float(line)
FloatOf(line) ==
  IF Len(line) = 1 /\ line[1].t = "float" THEN Returned(line[1].n)
  ELSE IF Len(line) = 1 /\ line[1].t = "int" THEN Returned(line[1].n * ONE)
  ELSE Raised("ValueError", MSG_FLOAT)

\* int(word)
IntOf(word) ==
  IF word.t = "int" THEN Returned(word.n) ELSE Raised("ValueError", MSG_INT)

\* np.asarray(lines).astype(float)
AsFloatArray(ls) ==
  IF \A i \in 1..Len(ls) : FloatOf(ls[i]).exc = "none"
  THEN Returned([i \in 1..Len(ls) |-> FloatOf(ls[i]).value])
  ELSE Raised("ValueError", MSG_FLOAT)

\* array.astype(str): one float literal per element, which reads back as the
\* same float
AsStrArray(a) == [i \in 1..Len(a) |-> << FloatWord(a[i]) >>]

\* f"{x:.6f}": six decimals
FormatF6(x) == << FloatWord(x) >>

RECURSIVE Sig7Unit(_, _)
Sig7Unit(x, u) == IF x < 10000000 * u THEN u ELSE Sig7Unit(x, 10 * u)

\* f"{x:.6e}" for x >= 0: seven significant digits
FormatE6(x) ==
  LET u == Sig7Unit(x, 1)
  IN  << FloatWord(((x + u \div 2) \div u) * u) >>

(***************************************************************************)
(* The raw bytes: rows of text joined by "\n", possibly with a last "\n",  *)
(* followed by 0xFF bytes.  A row may end in "\t" or "\r".                 *)
(***************************************************************************)
RawText(rows, final_nl, filler) ==
  [rows |-> rows, final_nl |-> final_nl, filler |-> filler]

\* while raw and raw[-1] == 0xFF: raw.pop()
StripFiller(raw) == [raw EXCEPT !.filler = 0]

\* raw.decode("utf-8").replace("\t", "").replace("\r", "").split("\n")
\* (0xFF is not UTF-8)
DecodeLines(raw) ==
  IF raw.filler > 0 THEN Raised("ValueError", MSG_DECODE)
  ELSE Returned([i \in 1..Len(raw.rows) |-> raw.rows[i].words]
                \o (IF raw.final_nl THEN << EmptyLine >> ELSE << >>))

\* the length test accepting longer blocks as well
CalibrationLengthOk_AtLeast(lines) == Len(lines) >= CALIBRATION_LINES

\* not (len(lines) != CALIBRATION_LINES)
CalibrationLengthOk(lines) == Len(lines) = CALIBRATION_LINES

\* the PRNU lines without the two values appended
ParsePrnu_NoAppend(lines) == AsFloatArray(Slice(lines, 3666, 7318))

\* the PRNU lines read up to where to_bytes writes them
ParsePrnu_ThroughReserved(lines) ==
  LET a == AsFloatArray(Slice(lines, 3666, 7320))
  IN  a

\* np.asarray(lines[3666:7318]).astype(float), then np.append(..., [1.0, 1.0])
ParsePrnu(lines) ==
  LET a == AsFloatArray(Slice(lines, 3666, 7318))
  IN  IF a.exc # "none" THEN a ELSE Returned(a.value \o << ONE, ONE >>)

\* Calibration.from_bytes: the Calibration built, or the exception raised
from_bytes(raw) ==
  LET decoded == DecodeLines(StripFiller(raw))
      lines == decoded.value
      header == lines[1]
      serial == IntOf(header[3])
      irr_scaler == FloatOf(lines[2])
      irr_wave == FloatOf(lines[3])
      wavelengths == AsFloatArray(Slice(lines, 12, 3665))
      prnu == ParsePrnu(lines)
      irr == AsFloatArray(Slice(lines, 7320, 10974))
  IN  IF decoded.exc # "none" THEN decoded
      ELSE IF ~CalibrationLengthOk(lines) THEN Raised("ValueError", MSG_CAL_LENGTH)
      ELSE IF Len(header) < 3 THEN Raised("IndexError", MSG_INDEX)
      ELSE IF serial.exc # "none" THEN serial
      ELSE IF irr_scaler.exc # "none" THEN irr_scaler
      ELSE IF irr_wave.exc # "none" THEN irr_wave
      ELSE IF wavelengths.exc # "none" THEN wavelengths
      ELSE IF prnu.exc # "none" THEN prnu
      ELSE IF irr.exc # "none" THEN irr
      ELSE Returned([model |-> header[1], type |-> header[2],
                     serial |-> serial.value,
                     irr_scaler |-> irr_scaler.value, irr_wave |-> irr_wave.value,
                     _wavelengths |-> wavelengths.value,
                     _prnu_norm |-> prnu.value,
                     _irr_norm |-> irr.value])

\* Calibration.to_bytes: the lines joined by "\n"
to_bytes(c) ==
  LET r0 == [i \in 1..CALIBRATION_LINES |-> EmptyLine]
      r1 == [r0 EXCEPT ![1] = << c.model, c.type, IntWord(c.serial) >>,
                       ![2] = FormatE6(c.irr_scaler),
                       ![3] = FormatF6(c.irr_wave)]
      r2 == SliceAssign(r1, 12, 3665, AsStrArray(c._wavelengths))
      r3 == SliceAssign(r2, 3666, 7320, AsStrArray(c._prnu_norm))
      r4 == SliceAssign(r3, 7321, 10975, AsStrArray(c._irr_norm))
  IN  RawText([i \in 1..Len(r4) |-> [words |-> r4[i], tail |-> ""]], FALSE, 0)

\* The properties wavelengths, prnu_norm, irr_norm
wavelengths(c) == Slice(c._wavelengths, 0, -5)
prnu_norm(c) == Slice(c._prnu_norm, 0, -6)
irr_norm(c) == Slice(c._irr_norm, 0, -6)

(***************************************************************************)
(* Calibration blocks a device can hold.  A block is described by the      *)
(* number of its rows, whether the text ends in a newline, the number of   *)
(* unwritten (0xFF) bytes after the text, the row endings, the header      *)
(* line, the content of the lines no field is read from, one damaged data  *)
(* line if any, and the data values.                                       *)
(***************************************************************************)
\* lines 3..11, 3665, 7318, 7319, 10974 (0-based) are not read by from_bytes
ReservedLines == (3..11) \cup {3665, 7318, 7319, 10974}

BlobRows == {CALIBRATION_LINES - 1, CALIBRATION_LINES, CALIBRATION_LINES + 1}
BlobFillers == {0, 2}
BlobTails == {"", "\r"}
BlobHeaders == {"ok", "short", "badserial"}
BlobReserved == {"empty", "text", "num"}
BlobDamage == {"none", "wavelength_empty", "prnu_text", "irr_empty"}
BlobSeeds == {1, 2}

DefaultBlob ==
  [rows |-> CALIBRATION_LINES, final_nl |-> FALSE, filler |-> 0, tail |-> "",
   header |-> "ok", reserved |-> "empty", damage |-> "none", seed |-> 1]

\* in how many respects a block differs from DefaultBlob
Deviations(b) ==
  (IF b.rows # DefaultBlob.rows THEN 1 ELSE 0)
  + (IF b.final_nl # DefaultBlob.final_nl THEN 1 ELSE 0)
  + (IF b.filler # DefaultBlob.filler THEN 1 ELSE 0)
  + (IF b.tail # DefaultBlob.tail THEN 1 ELSE 0)
  + (IF b.header # DefaultBlob.header THEN 1 ELSE 0)
  + (IF b.reserved # DefaultBlob.reserved THEN 1 ELSE 0)
  + (IF b.damage # DefaultBlob.damage THEN 1 ELSE 0)
  + (IF b.seed # DefaultBlob.seed THEN 1 ELSE 0)

MaxDeviations == 2

CalBlobs ==
  {b \in [rows : BlobRows, final_nl : BOOLEAN, filler : BlobFillers,
          tail : BlobTails, header : BlobHeaders, reserved : BlobReserved,
          damage : BlobDamage, seed : BlobSeeds] : Deviations(b) <= MaxDeviations}

\* the value on data line i (0-based) of a block
CalValue(seed, i) == seed * ONE + 250 * i

\* the damaged line of a block, -1 when none
DamagedLine(b) ==
  CASE b.damage = "wavelength_empty" -> 100
    [] b.damage = "prnu_text" -> 4000
    [] b.damage = "irr_empty" -> 10973
    [] OTHER -> -1

\* the words of line i (0-based) of a block
BlobLine(b, i) ==
  IF i = 0 THEN
    CASE b.header = "ok" -> << StrWord("LR1"), StrWord("Y"), IntWord(12345) >>
      [] b.header = "short" -> << StrWord("LR1"), StrWord("Y") >>
      [] OTHER -> << StrWord("LR1"), StrWord("Y"), StrWord("SN12345") >>
  ELSE IF i = 1 THEN << FloatWord(ONE) >>
  ELSE IF i = 2 THEN << FloatWord(0) >>
  ELSE IF i = DamagedLine(b) THEN
    (IF b.damage = "prnu_text" THEN << StrWord("n/a") >> ELSE EmptyLine)
  ELSE IF i \in ReservedLines THEN
    CASE b.reserved = "empty" -> EmptyLine
      [] b.reserved = "text" -> << StrWord("#"), StrWord("reserved") >>
      [] OTHER -> << FloatWord(CalValue(b.seed, i)) >>
  ELSE << FloatWord(CalValue(b.seed, i)) >>

\* the bytes read_flash returns for a block
BlobRaw(b) ==
  RawText([i \in 1..b.rows |-> [words |-> BlobLine(b, i - 1), tail |-> b.tail]],
          b.final_nl, b.filler)

\* the number of lines the text of a block splits into
BlobLineCount(b) == b.rows + (IF b.final_nl THEN 1 ELSE 0)

(***************************************************************************)
(* Parsing a block, serializing the result, parsing that again             *)
(***************************************************************************)
NoReport == RawText(<< >>, FALSE, 0)

CalAtRest ==
  /\ blob = DefaultBlob
  /\ cpc = "idle"
  /\ calX = NoValue
  /\ report = NoReport
  /\ calY = NoValue

CalInit ==
  /\ blob \in CalBlobs
  /\ cpc = "start"
  /\ calX = NoValue
  /\ report = NoReport
  /\ calY = NoValue

\* x = Calibration().from_bytes(raw)
CalFromBytes ==
  /\ cpc = "start"
  /\ calX' = from_bytes(BlobRaw(blob))
  /\ cpc' = "parsed"
  /\ UNCHANGED <<blob, report, calY>>
  /\ UNCHANGED notCal

\* x.to_bytes()
CalToBytes ==
  /\ cpc = "parsed"
  /\ calX.exc = "none"
  /\ report' = to_bytes(calX.value)
  /\ cpc' = "serialized"
  /\ UNCHANGED <<blob, calX, calY>>
  /\ UNCHANGED notCal

\* y = Calibration().from_bytes(x.to_bytes())
CalFromBytesAgain ==
  /\ cpc = "serialized"
  /\ calY' = from_bytes(report)
  /\ cpc' = "reparsed"
  /\ UNCHANGED <<blob, calX, report>>
  /\ UNCHANGED notCal

CalNext == CalFromBytes \/ CalToBytes \/ CalFromBytesAgain

(***************************************************************************)
(* Properties of the calibration codec                                     *)
(***************************************************************************)
\* the block splits into exactly 10975 lines, has the header "LR1 Y 12345"
\* and a number on every data line
WellFormedBlob ==
  /\ BlobLineCount(blob) = CALIBRATION_LINES
  /\ blob.header = "ok"
  /\ blob.damage = "none"

\* the block with other text on the lines no field is read from
WithReserved(b, r) == [b EXCEPT !.reserved = r]

\* C33: parsing does not depend on lines 3-11, 3665, 7318-7319 and 10974:
\* from_bytes on a block and on the blocks that differ from it only in those
\* lines (empty, text or a number) gives the same fields and arrays or the
\* same failure.
C33_ReservedLinesIgnored ==
  cpc = "parsed" =>
    \A r \in BlobReserved : from_bytes(BlobRaw(WithReserved(blob, r))) = calX

\* C33 witness: a block with words on its reserved lines was parsed into a
\* calibration
C33_Witness ==
  /\ cpc = "parsed"
  /\ blob.reserved = "text"
  /\ calX.exc = "none"
  /\ Len(calX.value._wavelengths) = 3653

\* C7: from_bytes on a block of exactly 10975 lines with header
\* "LR1 Y 12345", an irr_scaler line, an irr_wave line and numeric data lines
\* succeeds with model LR1, type Y, serial 12345; _wavelengths holds lines
\* 12..3664 (3653 values), _prnu_norm lines 3666..7317 followed by 1.0, 1.0
\* (3654 values), _irr_norm lines 7320..10973 (3654 values); wavelengths,
\* prnu_norm and irr_norm have 3648 values each, the internal arrays without
\* their last 5, 6 and 6.
C7_ParsedLayout ==
  (cpc \in {"parsed", "serialized", "reparsed"} /\ WellFormedBlob) =>
    /\ calX.exc = "none"
    /\ LET c == calX.value
       IN  /\ c.model = StrWord("LR1")
           /\ c.type = StrWord("Y")
           /\ c.serial = 12345
           /\ c.irr_scaler = ONE
           /\ c.irr_wave = 0
           /\ c._wavelengths = [k \in 1..3653 |-> CalValue(blob.seed, 11 + k)]
           /\ c._prnu_norm = [k \in 1..3654 |->
                                IF k <= 3652 THEN CalValue(blob.seed, 3665 + k)
                                ELSE ONE]
           /\ c._irr_norm = [k \in 1..3654 |-> CalValue(blob.seed, 7319 + k)]
           /\ wavelengths(c) = [k \in 1..3648 |-> c._wavelengths[k]]
           /\ prnu_norm(c) = [k \in 1..3648 |-> c._prnu_norm[k]]
           /\ irr_norm(c) = [k \in 1..3648 |-> c._irr_norm[k]]

\* C7 witness: a well-formed block with text on the unread lines, 0xFF bytes
\* behind it and CR LF line ends has been parsed
C7_Witness ==
  /\ cpc = "parsed"
  /\ WellFormedBlob
  /\ blob.reserved = "text"
  /\ calX.exc = "none"
  /\ Len(wavelengths(calX.value)) = 3648

\* C9: for every calibration x from_bytes produced, from_bytes(to_bytes(x))
\* succeeds and gives the same wavelengths, prnu_norm, irr_norm, model, type
\* and serial.
C9_RoundTrip ==
  cpc = "reparsed" =>
    /\ calY.exc = "none"
    /\ wavelengths(calY.value) = wavelengths(calX.value)
    /\ prnu_norm(calY.value) = prnu_norm(calX.value)
    /\ irr_norm(calY.value) = irr_norm(calX.value)
    /\ calY.value.model = calX.value.model
    /\ calY.value.type = calX.value.type
    /\ calY.value.serial = calX.value.serial

\* C9, the write side alone: to_bytes puts every array on the lines
\* from_bytes reads it from
C9_SameLineRanges ==
  cpc \in {"serialized", "reparsed"} =>
    LET lines == DecodeLines(report).value
    IN  /\ AsFloatArray(Slice(lines, 3666, 7318)).exc = "none"
        /\ AsFloatArray(Slice(lines, 7320, 10974)).exc = "none"

(***************************************************************************)
(* The session: LR1.__init__, __enter__ / _open, __exit__ / _close         *)
(*                                                                         *)
(* _open is followed one command at a time.  Each command either gets its  *)
(* reply or raises OSError (send and _receive turn usb.core.USBError into  *)
(* OSError, _receive raises it on another reply code).                     *)
(***************************************************************************)
\* Python's None
None == << >>

\* get_calibration: BYTES_TO_READ
BYTES_TO_READ == 97089

MSG_OPEN == "Unable to open spectrometer"

NoException == Returned(NoValue)

TransportErrors ==
  {Raised("OSError", MSG_WRITE), Raised("OSError", MSG_READ),
   Raised("OSError", MSG_REPLY)}

\* what read_flash can raise once its arguments are accepted
ReadFlashErrors ==
  TransportErrors \cup {Raised("OSError", MSG_DROPPED), Raised("ValueError", MSG_DEVICE)}

\* Parameters.from_bytes: exposure_time_ms = exp_10s_of_us / 100
ParametersFromBytes(r) ==
  [scan_count |-> r.scan_count, blank_scan_count |-> r.blank_scan_count,
   scan_mode |-> r.scan_mode,
   exposure_time_ms |-> (r.exp_10s_of_us * ONE) \div 100]

\* the replies a device gives to get_acquisition_parameters, get_frame_format
\* and status
ParameterReplies ==
  {[scan_count |-> 1, blank_scan_count |-> 0, scan_mode |-> 0,
    exp_10s_of_us |-> 1000]}
FrameFormatReplies == {FrameFormat(75)}
StatusReplies ==
  {[status |-> 0, frames_in_mem |-> 0], [status |-> 2, frames_in_mem |-> 1]}

\* LR1.__init__
SessInit ==
  /\ connected = FALSE
  /\ status = None
  /\ parameters = None
  /\ calibration = None
  /\ external_trigger = FALSE
  /\ opc = "closed"
  /\ oexc = NoException
  /\ flash_read = "none"
  /\ cal_log = None
  /\ reset_log = None

\* an open session between two operations
SessAtRest ==
  /\ connected = TRUE
  /\ status = [status |-> 0, frames_in_mem |-> 0]
  /\ parameters = ParametersFromBytes(CHOOSE r \in ParameterReplies : TRUE)
  /\ calibration = None
  /\ external_trigger = FALSE
  /\ opc = "opened"
  /\ oexc = NoException
  /\ flash_read = "none"
  /\ cal_log = None
  /\ reset_log = None

\* __enter__ -> _open: the kernel driver and set_configuration
OpenConfigure ==
  /\ opc = "closed"
  /\ \/ /\ opc' = "configured"
        /\ oexc' = NoException
     \/ \* usb.core.USBError -> OSError
        /\ opc' = "failed"
        /\ oexc' = Raised("OSError", MSG_OPEN)
  /\ UNCHANGED <<flash_read, cal_log, reset_log>>
  /\ UNCHANGED <<connected, status, parameters, calibration, external_trigger,
                 frame_format>>
  /\ UNCHANGED notSess

\* reset(), whose failure is logged and ignored; then connected = True
\* reset() is send() and a sleep: it returns, or device.write raises
\* usb.core.USBError (a write error or its timeout) and send raises OSError
ResetOutcomes == {NoException, Raised("OSError", MSG_WRITE)}

\* _open with a failed reset handled by the outer except clause
OpenAfterReset_Fatal(e) ==
  IF e.exc = "none"
  THEN [opc |-> "get_parameters", oexc |-> NoException, connected |-> TRUE]
  ELSE [opc |-> "failed", oexc |-> Raised("OSError", MSG_OPEN), connected |-> FALSE]

\* `except (usb.core.USBError, OSError) as e: LOGGER.warning(...)`, then
\* connected = True and the loading goes on
OpenAfterReset(e) ==
  [opc |-> "get_parameters", oexc |-> NoException, connected |-> TRUE]

OpenResetOf(outcomes) ==
  /\ opc = "configured"
  /\ \E e \in outcomes :
       /\ reset_log' = e
       /\ connected' = OpenAfterReset(e).connected
       /\ opc' = OpenAfterReset(e).opc
       /\ oexc' = OpenAfterReset(e).oexc
  /\ UNCHANGED <<status, parameters, calibration, external_trigger,
                 flash_read, cal_log, frame_format>>
  /\ UNCHANGED notSess

OpenReset == OpenResetOf(ResetOutcomes)
\* the reset request is written
OpenResetSent == OpenResetOf({NoException})

\* get_parameters()
OpenGetParameters ==
  /\ opc = "get_parameters"
  /\ \/ \E r \in ParameterReplies :
          /\ parameters' = ParametersFromBytes(r)
          /\ opc' = "get_frame_format"
          /\ UNCHANGED oexc
     \/ \E e \in TransportErrors :
          /\ oexc' = e
          /\ opc' = "failed"
          /\ UNCHANGED parameters
  /\ UNCHANGED <<connected, status, calibration, external_trigger, flash_read,
                 cal_log, reset_log, frame_format>>
  /\ UNCHANGED notSess

\* get_frame_format()
OpenGetFrameFormat ==
  /\ opc = "get_frame_format"
  /\ \/ \E r \in FrameFormatReplies :
          /\ frame_format' = r
          /\ opc' = "get_status"
          /\ UNCHANGED oexc
     \/ \E e \in TransportErrors :
          /\ oexc' = e
          /\ opc' = "failed"
          /\ UNCHANGED frame_format
  /\ UNCHANGED <<connected, status, parameters, calibration, external_trigger,
                 flash_read, cal_log, reset_log>>
  /\ UNCHANGED notSess

\* get_status()
OpenGetStatus ==
  /\ opc = "get_status"
  /\ \/ \E r \in StatusReplies :
          /\ status' = r
          /\ opc' = "get_calibration"
          /\ UNCHANGED oexc
     \/ \E e \in TransportErrors :
          /\ oexc' = e
          /\ opc' = "failed"
          /\ UNCHANGED status
  /\ UNCHANGED <<connected, parameters, calibration, external_trigger,
                 flash_read, cal_log, reset_log, frame_format>>
  /\ UNCHANGED notSess

\* get_calibration() without its try / except: a failure leaves _open
OpenGetCalibration_NoCatch ==
  /\ opc = "get_calibration"
  /\ LET checked == _check_flash_parameters(BYTES_TO_READ, 0)
     IN  \/ /\ checked.exc # "none"
            /\ flash_read' = "raised"
            /\ oexc' = checked
            /\ opc' = "failed"
            /\ UNCHANGED <<calibration, cal_log>>
         \/ /\ checked.exc = "none"
            /\ \E e \in ReadFlashErrors :
                 /\ flash_read' = "raised"
                 /\ oexc' = e
                 /\ opc' = "failed"
                 /\ UNCHANGED <<calibration, cal_log>>
         \/ /\ checked.exc = "none"
            /\ flash_read' = "returned"
            /\ LET parsed == from_bytes(BlobRaw(blob))
               IN  IF parsed.exc = "none"
                   THEN /\ calibration' = parsed.value
                        /\ cal_log' = NoException
                        /\ opc' = "opened"
                        /\ UNCHANGED oexc
                   ELSE /\ oexc' = parsed
                        /\ opc' = "failed"
                        /\ UNCHANGED <<calibration, cal_log>>
  /\ UNCHANGED <<connected, status, parameters, external_trigger, frame_format,
                 reset_log>>
  /\ UNCHANGED notSess

\* get_calibration(): read_flash(BYTES_TO_READ, 0), Calibration().from_bytes,
\* and `except Exception` around both
OpenGetCalibration ==
  /\ opc = "get_calibration"
  /\ LET checked == _check_flash_parameters(BYTES_TO_READ, 0)
     IN  \/ /\ checked.exc # "none"
            /\ flash_read' = "raised"
            /\ cal_log' = checked
            /\ UNCHANGED calibration
         \/ /\ checked.exc = "none"
            /\ \E e \in ReadFlashErrors :
                 /\ flash_read' = "raised"
                 /\ cal_log' = e
                 /\ UNCHANGED calibration
         \/ /\ checked.exc = "none"
            /\ flash_read' = "returned"
            /\ LET parsed == from_bytes(BlobRaw(blob))
               IN  IF parsed.exc = "none"
                   THEN /\ calibration' = parsed.value
                        /\ cal_log' = NoException
                   ELSE /\ cal_log' = parsed
                        /\ UNCHANGED calibration
  /\ opc' = "opened"
  /\ UNCHANGED <<connected, status, parameters, external_trigger, oexc,
                 frame_format, reset_log>>
  /\ UNCHANGED notSess

\* get_calibration() called on the open session: the same read and parse; a
\* failure is logged in the except clause, which assigns nothing
GetCalibration ==
  /\ opc = "opened"
  /\ LET checked == _check_flash_parameters(BYTES_TO_READ, 0)
     IN  \/ /\ checked.exc # "none"
            /\ flash_read' = "raised"
            /\ cal_log' = checked
            /\ UNCHANGED calibration
         \/ /\ checked.exc = "none"
            /\ \E e \in ReadFlashErrors :
                 /\ flash_read' = "raised"
                 /\ cal_log' = e
                 /\ UNCHANGED calibration
         \/ /\ checked.exc = "none"
            /\ flash_read' = "returned"
            /\ LET parsed == from_bytes(BlobRaw(blob))
               IN  IF parsed.exc = "none"
                   THEN /\ calibration' = parsed.value
                        /\ cal_log' = NoException
                   ELSE /\ cal_log' = parsed
                        /\ UNCHANGED calibration
  /\ UNCHANGED <<connected, status, parameters, external_trigger, opc, oexc,
                 frame_format, reset_log>>
  /\ UNCHANGED notSess

\* TriggerMode: disabled, enabled, oneshot
TriggerModes == {0, 1, 2}

\* set_external_trigger(mode, slope) inside the `with` block: the flag is
\* set once the reply is in; an OSError leaves the block
SetExternalTrigger ==
  /\ opc = "opened"
  /\ \/ \E mode \in TriggerModes :
          /\ external_trigger' = ~(mode = 0)
          /\ UNCHANGED <<opc, oexc>>
     \/ \E e \in TransportErrors :
          /\ oexc' = e
          /\ opc' = "raising"
          /\ UNCHANGED external_trigger
  /\ UNCHANGED <<connected, status, parameters, calibration, flash_read,
                 cal_log, reset_log, frame_format>>
  /\ UNCHANGED notSess

\* __exit__ -> _close, at the end of the `with` block or when an exception
\* leaves it (the exception then goes on to the caller)
Close ==
  /\ opc \in {"opened", "raising"}
  /\ connected' = FALSE
  /\ status' = None
  /\ parameters' = None
  /\ frame_format' = None
  /\ calibration' = None
  /\ opc' = IF opc = "opened" THEN "closed" ELSE "exited"
  /\ flash_read' = "none"
  /\ cal_log' = None
  /\ reset_log' = None
  /\ UNCHANGED <<external_trigger, oexc>>
  /\ UNCHANGED notSess

\* Opening, using and closing a session.  A reset that fails leaves the
\* session as a reset that is written does, up to reset_log: the sessions here
\* are those whose reset is written, ResetNext has both.
OpenNext ==
  \/ OpenConfigure
  \/ OpenResetSent
  \/ OpenGetParameters
  \/ OpenGetFrameFormat
  \/ OpenGetStatus
  \/ OpenGetCalibration
  \/ SetExternalTrigger
  \/ Close

\* _open is not running: not begun, returned, failed, or the session left
OpenNotInProgress == opc \in {"closed", "opened", "raising", "failed", "exited"}

\* C36: whenever connected is true and no open is in progress, parameters,
\* frame_format and status are loaded; after an open that failed at any step
\* connected is false.
C36_ConnectedMeansLoaded ==
  /\ (connected /\ OpenNotInProgress)
       => (parameters # None /\ frame_format # None /\ status # None)
  /\ opc = "failed" => ~connected

\* what holds instead: the three are loaded once _open has returned, and
\* connected is false after an open that failed before the reset
C36_ConnectedMeansLoaded_OpenReturned ==
  /\ opc \in {"opened", "raising"}
       => (connected /\ parameters # None /\ frame_format # None /\ status # None)
  /\ (opc = "failed" /\ oexc = Raised("OSError", MSG_OPEN)) => ~connected

\* the same with get_calibration called again on the open session
ReloadNext ==
  \/ OpenConfigure
  \/ OpenResetSent
  \/ OpenGetParameters
  \/ OpenGetFrameFormat
  \/ OpenGetStatus
  \/ OpenGetCalibration
  \/ GetCalibration
  \/ SetExternalTrigger
  \/ Close

\* C32: after a get_calibration call that failed to read or parse the
\* calibration, the session's calibration is None, also when an earlier
\* get_calibration of the session had succeeded.
C32_NoStaleCalibration ==
  (opc = "opened" /\ cal_log # None /\ cal_log.exc # "none")
    => calibration = None

\* what holds instead: a failed get_calibration leaves the calibration as it
\* was before the call
C32_FailedLoadKeepsCalibration ==
  [][(opc = "opened" /\ cal_log' # cal_log /\ cal_log' # None
        /\ cal_log'.exc # "none")
       => calibration' = calibration]_vars

\* the same with a reset that is written or fails
ResetNext ==
  \/ OpenConfigure
  \/ OpenReset
  \/ OpenGetParameters
  \/ OpenGetFrameFormat
  \/ OpenGetStatus
  \/ OpenGetCalibration
  \/ SetExternalTrigger
  \/ Close

\* reset() raised inside the _open of this session
ResetFailed == reset_log # None /\ reset_log.exc # "none"

\* C23: when the reset of _open fails, _open does not raise for it: the
\* session is connected, an exception of _open is one of a later request,
\* and once _open has returned, parameters, frame_format and status are
\* replies of the device and the calibration is what get_calibration makes of
\* the flash, parsed or logged and None.
C23_OpenSurvivesResetFailure ==
  ResetFailed =>
    /\ connected
    /\ oexc # Raised("OSError", MSG_OPEN)
    /\ opc = "failed" => oexc \in TransportErrors
    /\ opc = "opened" =>
         /\ oexc = NoException
         /\ parameters \in {ParametersFromBytes(r) : r \in ParameterReplies}
         /\ frame_format \in FrameFormatReplies
         /\ status \in StatusReplies
         /\ flash_read # "none"
         /\ cal_log # None
         /\ (cal_log # NoException) = (calibration = None)
         /\ (flash_read = "returned" /\ Deviations(blob) = 0) =>
              calibration = from_bytes(BlobRaw(blob)).value

\* C23 witness: the reset failed with a write error and the session is
\* open, with the calibration of the flash
C23_Witness ==
  /\ opc = "opened"
  /\ reset_log = Raised("OSError", MSG_WRITE)
  /\ connected
  /\ parameters # None
  /\ frame_format # None
  /\ status # None
  /\ cal_log = NoException
  /\ calibration # None

(***************************************************************************)
(* Properties of the calibration at open                                   *)
(***************************************************************************)
\* C8: a block whose text, once the 0xFF bytes behind it are stripped, splits
\* into 10974, 10976 or any number of lines other than 10975 is rejected by
\* from_bytes with ValueError "Invalid calibration length."; at open this
\* leaves calibration None and _open does not raise.
C8_WrongLineCountRejected ==
  (opc = "opened" /\ flash_read = "returned"
     /\ BlobLineCount(blob) # CALIBRATION_LINES) =>
    /\ cal_log = Raised("ValueError", MSG_CAL_LENGTH)
    /\ calibration = None
    /\ oexc = NoException
    /\ connected

\* C8 witness: a session opened on a device whose block has one line too many
\* and 0xFF bytes behind the text
C8_Witness ==
  /\ opc = "opened"
  /\ flash_read = "returned"
  /\ BlobLineCount(blob) = CALIBRATION_LINES + 1
  /\ blob.filler > 0
  /\ cal_log.exc = "ValueError"
  /\ calibration = None

\* C16: after _close, at the end of the `with` block or on an exception
\* leaving it, connected is false and status, frames_in_mem, parameters,
\* frame_format, calibration and external_trigger have the values __init__
\* gave them.
C16_CloseClearsState ==
  opc \in {"closed", "exited"} =>
    /\ connected = FALSE
    /\ status = None
    /\ parameters = None
    /\ frame_format = None
    /\ calibration = None
    /\ external_trigger = FALSE

\* C16 without the trigger flag
C16_CloseClearsState_ButTrigger ==
  opc \in {"closed", "exited"} =>
    /\ connected = FALSE
    /\ status = None
    /\ parameters = None
    /\ frame_format = None
    /\ calibration = None

(***************************************************************************)
(* Raw capture on an opened session                                        *)
(*                                                                         *)
(* get_raw_frame is followed on sessions that hold no calibration, as the  *)
(* last operation of the run.                                              *)
(***************************************************************************)
CaptureNext ==
  \/ /\ gpc = "idle"
     /\ OpenNext
  \/ /\ opc = "opened"
     /\ calibration = None
     /\ FrameNext

\* get_calibration was reached in this session
CalibrationTried == flash_read # "none"

\* C15: when reading or parsing the calibration fails during open (OSError,
\* ValueError from the device or from the format), _open completes without
\* an exception, connected, with parameters, frame_format and status loaded
\* and calibration None; a get_raw_frame on that session, its packets
\* delivered, returns the frame.
C15_OpenSurvivesCalibrationFailure ==
  /\ CalibrationTried => (opc # "failed" /\ cal_log # None)
  /\ (opc = "opened" /\ cal_log # NoException) =>
       /\ oexc = NoException
       /\ connected
       /\ parameters # None
       /\ frame_format # None
       /\ status # None
       /\ calibration = None
       /\ (gpc = "ret" /\ gfaithful /\ usb_reads > 0) =>
            /\ gret.exc = "none"
            /\ gret.value = [j \in 1..(frame_format.pixels_in_frame - 46) |->
                               Pixel(31 + j)]

\* C15 witness: the block on the device has no serial number in its header;
\* the session is open and a frame has been read on it
C15_Witness ==
  /\ opc = "opened"
  /\ flash_read = "returned"
  /\ blob.header = "badserial"
  /\ cal_log.exc = "ValueError"
  /\ calibration = None
  /\ gpc = "ret"
  /\ gfaithful
  /\ gret.exc = "none"
  /\ Len(gret.value) = frame_format.pixels_in_frame - 46

(***************************************************************************)
(* The commands of one request and one reply, and grab_one                 *)
(*                                                                         *)
(* get_status, get_parameters, set_parameters, set_exposure_ms,            *)
(* get_frame_format, set_frame_format, set_external_trigger, clear_memory  *)
(* and erase_flash are one _send_and_receive each; software_trigger is one *)
(* send; grab_one calls set_parameters, clear_memory, software_trigger,    *)
(* get_status in a loop and get_raw_frame.                                 *)
(***************************************************************************)
\* grab_one waits while the device reports in_progress at most MaxBusy times
MaxBusy == 2

\* exposure_ms of set_exposure_ms and of grab_one
ExposureMs == 20

\* LR1 methods that are one _send_and_receive
Commands ==
  {"get_status", "get_parameters", "set_parameters", "set_exposure_ms",
   "get_frame_format", "set_frame_format", "set_external_trigger",
   "clear_memory", "erase_flash"}

\* the ReplyCode each method passes to _receive
ReplyCodeOf(method) ==
  CASE method = "get_status" -> REPLY_status
    [] method = "set_exposure_ms" -> REPLY_set_exposure
    [] method = "set_parameters" -> REPLY_set_acquisition_parameters
    [] method = "set_frame_format" -> REPLY_set_frame_format
    [] method = "set_external_trigger" -> REPLY_set_external_trigger
    [] method = "software_trigger" -> REPLY_set_software_trigger
    [] method = "clear_memory" -> REPLY_clear_memory
    [] method = "get_frame_format" -> REPLY_get_frame_format
    [] method = "get_parameters" -> REPLY_get_acquisition_parameters
    [] method = "get_raw_frame" -> REPLY_get_frame
    [] method = "erase_flash" -> REPLY_erase_flash

\* set_frame_format() takes no argument: its caller assigns the fields of
\* frame_format first.  The end_element values tried: FrameFormat()'s own and
\* a larger one.
EndElements == {FrameFormat(0).end_element, 2 * FrameFormat(0).end_element}

\* the arguments a method is tried with: the TriggerMode of
\* set_external_trigger; exposure_ms of set_exposure_ms; exposure_ms of
\* grab_one, where 0 stands for None and 0, both false in `if exposure_ms:`;
\* the end_element assigned before set_frame_format, here the one it has
Arguments(op) ==
  CASE op = "set_external_trigger" -> TriggerModes
    [] op = "set_exposure_ms" -> {ExposureMs}
    [] op = "grab_one" -> {0, ExposureMs}
    [] op = "set_frame_format" -> {FrameFormat(0).end_element}
    [] OTHER -> {0}

\* the calls of a session that changes the frame format: set_frame_format
\* after either assignment of end_element, get_frame_format, get_raw_frame
FormatCommands == {"set_frame_format", "get_frame_format", "get_raw_frame"}
FormatArguments(op) ==
  IF op = "set_frame_format" THEN EndElements ELSE {0}

NoCommand == [op |-> "none", arg |-> 0]
NoPolls == [waits |-> 0, status_requests |-> 0, frame_calls |-> 0, replies |-> << >>,
            k |-> 0, busy |-> Status_in_progress, requests |-> << >>]
\* the device between captures, its frame memory empty, with the exposure and
\* the frame format it reports at open
NoCapture ==
  [left |-> 0, final |-> Status_idle, frames |-> 0, busy |-> Status_in_progress,
   exp_10s_of_us |-> (CHOOSE r \in ParameterReplies : TRUE).exp_10s_of_us,
   format |-> CHOOSE f \in FrameFormatReplies : TRUE]

\* Parameters.to_bytes: struct.pack("<HHBL", ...) with
\* exp_10s_of_us = int(exposure_time_ms * 100)
ParametersToBytes(p) ==
  [scan_count |-> p.scan_count, blank_scan_count |-> p.blank_scan_count,
   scan_mode |-> p.scan_mode,
   exp_10s_of_us |-> p.exposure_time_ms \div (ONE \div 100)]

\* to_bytes()[-4:]: of the 2 + 2 + 1 + 4 bytes, the four of the L field
TrailingBytes4(block) == block.exp_10s_of_us

\* what a request carries after its code
RequestPayload(method) ==
  CASE method = "set_parameters" -> ParametersToBytes(parameters)
    [] method = "set_exposure_ms" -> TrailingBytes4(ParametersToBytes(parameters))
    [] method = "set_frame_format" -> frame_format
    [] OTHER -> << >>

CmdInit ==
  /\ xpc = "idle"
  /\ xcall = NoCommand
  /\ xcur = "none"
  /\ xret = Returned(NoValue)
  /\ polls = NoPolls
  /\ capture = NoCapture
  /\ ep_in = << >>
  /\ awaiting = << >>

CmdAtRest == CmdInit

\* parameters.exposure_time_ms = exposure_ms
WithExposure(p, exposure_ms) == [p EXCEPT !.exposure_time_ms = exposure_ms * ONE]

\* A caller enters one of the commands; set_exposure_ms stores the exposure
\* in the cached parameters before it sends
CommandCallOf(arguments) ==
  /\ xpc = "idle"
  /\ \E op \in DOMAIN arguments : \E arg \in arguments[op] :
       /\ xcall' = [op |-> op, arg |-> arg]
       /\ xcur' = op
       /\ xpc' = IF op = "get_raw_frame" THEN "frame" ELSE "send"
       /\ parameters' = IF op = "set_exposure_ms"
                        THEN WithExposure(parameters, arg) ELSE parameters
       /\ frame_format' = IF op = "set_frame_format"
                          THEN [frame_format EXCEPT !.end_element = arg]
                          ELSE frame_format
  /\ xret' = Returned(NoValue)
  /\ polls' = NoPolls
  /\ awaiting' = << >>
  /\ usb_writes' = 0
  /\ usb_reads' = 0
  /\ dev' = NoRequest
  /\ UNCHANGED <<capture, ep_in>>
  /\ UNCHANGED <<connected, status, calibration, external_trigger, opc, oexc,
                 flash_read, cal_log, reset_log>>
  /\ UNCHANGED notCmd

CommandCall ==
  CommandCallOf([op \in Commands \cup {"get_raw_frame"} |-> Arguments(op)])
FormatCall == CommandCallOf([op \in FormatCommands |-> FormatArguments(op)])

\* grab_one(exposure_ms): `if exposure_ms:` and the entry of set_parameters
GrabOneCall ==
  /\ xpc = "idle"
  /\ \E exposure_ms \in Arguments("grab_one") :
       /\ xcall' = [op |-> "grab_one", arg |-> exposure_ms]
       /\ parameters' = IF exposure_ms # 0
                        THEN WithExposure(parameters, exposure_ms) ELSE parameters
  /\ xcur' = "set_parameters"
  /\ xpc' = "send"
  /\ xret' = Returned(NoValue)
  /\ polls' = NoPolls
  /\ awaiting' = << >>
  /\ usb_writes' = 0
  /\ usb_reads' = 0
  /\ dev' = NoRequest
  /\ UNCHANGED <<capture, ep_in>>
  /\ UNCHANGED <<connected, status, calibration, external_trigger, opc, oexc,
                 flash_read, cal_log, reset_log, frame_format>>
  /\ UNCHANGED notCmd

\* What a request does in the device when it arrives.  How the device sizes
\* its frame after set_frame_format is not in the driver: it keeps the pixel
\* count of the request, or its pixel count follows end_element.
DevicesAfter(method, payload, cap) ==
  CASE method = "clear_memory" ->
         {[cap EXCEPT !.left = 0, !.final = Status_idle, !.frames = 0,
                      !.busy = Status_in_progress]}
    [] method \in {"set_parameters"} ->
         {[cap EXCEPT !.exp_10s_of_us = payload.exp_10s_of_us]}
    [] method = "set_exposure_ms" ->
         {[cap EXCEPT !.exp_10s_of_us = payload]}
    [] method = "set_frame_format" ->
         {[cap EXCEPT !.format = payload],
          [cap EXCEPT !.format =
             [payload EXCEPT !.pixels_in_frame =
                NoCapture.format.pixels_in_frame
                  + (payload.end_element - NoCapture.format.end_element)]]}
    [] OTHER -> {cap}

\* send(report) tried again when device.write raises
CommandSend_Retry ==
  /\ xpc = "send"
  /\ xcur # "software_trigger"
  /\ usb_writes' = usb_writes + 1
  /\ \/ /\ dev' = Request(xcur, 0, 0, 1)
        /\ awaiting' = Append(awaiting, xcur)
        /\ capture' \in DevicesAfter(xcur, RequestPayload(xcur), capture)
        /\ flash' = IF xcur = "erase_flash" THEN ErasedFlash ELSE flash
        /\ polls' = [polls EXCEPT
                       !.requests = Append(@, xcur),
                       !.status_requests = IF xcur = "get_status" THEN @ + 1 ELSE @]
        /\ xpc' = "recv"
        /\ UNCHANGED xret
     \/ /\ usb_writes < 2
        /\ UNCHANGED <<xret, xpc, dev, awaiting, capture, flash, polls>>
  /\ UNCHANGED <<xcall, xcur, ep_in, usb_reads, frame_format>>
  /\ UNCHANGED sessVars
  /\ UNCHANGED <<fpc, fcall, rf, wf, fret, faithful, lastWrite, nWrites>>
  /\ UNCHANGED <<frameLocals, calVars, concVars, irrVars, appVars>>

\* send(report) of _send_and_receive
CommandSend ==
  /\ xpc = "send"
  /\ xcur # "software_trigger"
  /\ usb_writes' = usb_writes + 1
  /\ \/ /\ dev' = Request(xcur, 0, 0, 1)
        /\ awaiting' = Append(awaiting, xcur)
        /\ capture' \in DevicesAfter(xcur, RequestPayload(xcur), capture)
        /\ flash' = IF xcur = "erase_flash" THEN ErasedFlash ELSE flash
        /\ polls' = [polls EXCEPT
                       !.requests = Append(@, xcur),
                       !.status_requests = IF xcur = "get_status" THEN @ + 1 ELSE @]
        /\ xpc' = "recv"
        /\ UNCHANGED xret
     \/ \* device.write raises usb.core.USBError
        /\ xret' = Raised("OSError", MSG_WRITE)
        /\ xpc' = "ret"
        /\ UNCHANGED <<dev, awaiting, capture, flash, polls>>
  /\ UNCHANGED <<xcall, xcur, ep_in, usb_reads, frame_format>>
  /\ UNCHANGED sessVars
  /\ UNCHANGED <<fpc, fcall, rf, wf, fret, faithful, lastWrite, nWrites>>
  /\ UNCHANGED <<frameLocals, calVars, concVars, irrVars, appVars>>

\* grab_one with the trigger sent before the memory is cleared
NextInGrabOne_TriggerFirst(method, waiting) ==
  CASE method = "set_parameters" -> "software_trigger"
    [] method = "software_trigger" -> "clear_memory"
    [] method = "clear_memory" -> "get_status"
    [] method = "get_status" -> IF waiting THEN "get_status" ELSE "get_raw_frame"

\* grab_one reading the frame after the first status reply, whatever it is
NextInGrabOne_NoWait(method, waiting) ==
  CASE method = "set_parameters" -> "clear_memory"
    [] method = "clear_memory" -> "software_trigger"
    [] method = "software_trigger" -> "get_status"
    [] method = "get_status" -> "get_raw_frame"

\* the method grab_one calls after `method`
NextInGrabOne(method, waiting) ==
  CASE method = "set_parameters" -> "clear_memory"
    [] method = "clear_memory" -> "software_trigger"
    [] method = "software_trigger" -> "get_status"
    [] method = "get_status" -> IF waiting THEN "get_status" ELSE "get_raw_frame"

\* Status is an IntFlag: what the device reports during a capture of k
\* status reads is in_progress, alone or together with memory_full
BusyStatuses(k) ==
  IF k = 0 THEN {Status_in_progress}
  ELSE {Status_in_progress, Status_in_progress + Status_memory_full}

\* software_trigger(): send(report) and nothing else.  The capture the device
\* starts is reported busy k times and then idle or memory_full; the device
\* may or may not put the set_software_trigger reply on EP_IN.
SoftwareTrigger ==
  /\ xpc = "send"
  /\ xcur = "software_trigger"
  /\ usb_writes' = usb_writes + 1
  /\ \/ /\ dev' = Request(xcur, 0, 0, 1)
        /\ awaiting' = Append(awaiting, xcur)
        /\ \E k \in 0..MaxBusy : \E final \in {Status_idle, Status_memory_full} :
           \E busy \in BusyStatuses(k) :
             /\ capture' = [capture EXCEPT !.left = k, !.final = final,
                                           !.frames = 1, !.busy = busy]
             /\ polls' = [polls EXCEPT !.k = k, !.busy = busy,
                                       !.requests = Append(@, xcur)]
        /\ \E acknowledged \in BOOLEAN :
             ep_in' = IF acknowledged
                      THEN Append(ep_in, Packet(REPLY_set_software_trigger, 0, 0, << >>))
                      ELSE ep_in
        /\ xcur' = NextInGrabOne(xcur, FALSE)
        /\ UNCHANGED <<xpc, xret>>
     \/ \* device.write raises usb.core.USBError
        /\ xret' = Raised("OSError", MSG_WRITE)
        /\ xpc' = "ret"
        /\ UNCHANGED <<dev, awaiting, capture, ep_in, xcur, polls>>
  /\ UNCHANGED <<xcall, usb_reads, frame_format>>
  /\ UNCHANGED sessVars
  /\ UNCHANGED notCmd

\* the reply of the device to the request it holds
GoodReplies ==
  CASE xcur = "get_status" ->
         {Packet(REPLY_status, 0, 0,
                 IF capture.left > 0
                 THEN [status |-> capture.busy, frames_in_mem |-> 0]
                 ELSE [status |-> capture.final, frames_in_mem |-> capture.frames])}
    [] xcur = "get_parameters" ->
         {Packet(REPLY_get_acquisition_parameters, 0, 0,
                 [r EXCEPT !.exp_10s_of_us = capture.exp_10s_of_us]) :
            r \in ParameterReplies}
    [] xcur = "get_frame_format" ->
         {Packet(REPLY_get_frame_format, 0, 0, capture.format)}
    [] OTHER -> {Packet(ReplyCodeOf(xcur), 0, 0, << >>)}

\* what a packet that is not the reply may carry besides the reply's
\* payload: parameters with another exposure than the device's
StrayPayloads ==
  IF xcur = "get_parameters"
  THEN {Packet(REPLY_get_acquisition_parameters, 0, 0,
               [r EXCEPT !.exp_10s_of_us = 2 * capture.exp_10s_of_us]) :
          r \in ParameterReplies}
  ELSE {}

\* What the next read on EP_IN delivers: the oldest packet still unread, or
\* else the reply to this request, no packet in time, or a packet with
\* another code
CommandTransfers ==
  IF ep_in # << >> THEN {Head(ep_in)}
  ELSE GoodReplies
         \cup {USBError}
         \cup {[g EXCEPT !.code = IF g.code = REPLY_status
                                   THEN REPLY_get_frame ELSE REPLY_status] :
                 g \in GoodReplies \cup StrayPayloads}

\* `while self.get_status() == Status.in_progress:`
StillInProgress_Never(s) == FALSE
StillInProgress(s) == s.status = Status_in_progress

\* the cached fields of the session
Cached ==
  [status |-> status, parameters |-> parameters, frame_format |-> frame_format,
   external_trigger |-> external_trigger]

\* get_status assigning more than status and frames_in_mem
AfterReply_StatusClearsTrigger(method, arg, payload, c) ==
  CASE method = "get_status" -> [c EXCEPT !.status = payload,
                                          !.external_trigger = FALSE]
    [] method = "get_parameters" ->
         [c EXCEPT !.parameters = ParametersFromBytes(payload)]
    [] method = "get_frame_format" -> [c EXCEPT !.frame_format = payload]
    [] method = "set_external_trigger" -> [c EXCEPT !.external_trigger = ~(arg = 0)]
    [] OTHER -> c

\* what each method assigns once _receive has returned the reply
AfterReply(method, arg, payload, c) ==
  CASE method = "get_status" -> [c EXCEPT !.status = payload]
    [] method = "get_parameters" ->
         [c EXCEPT !.parameters = ParametersFromBytes(payload)]
    [] method = "get_frame_format" -> [c EXCEPT !.frame_format = payload]
    [] method = "set_external_trigger" -> [c EXCEPT !.external_trigger = ~(arg = 0)]
    [] OTHER -> c

\* the requests still awaiting a reply once a packet with this code was read
Answered(aw, code) ==
  LET hits == {i \in 1..Len(aw) : ReplyCodeOf(aw[i]) = code}
  IN  IF hits = {} THEN aw
      ELSE LET i == CHOOSE j \in hits : \A h \in hits : j <= h
           IN  SubSeq(aw, 1, i - 1) \o SubSeq(aw, i + 1, Len(aw))

\* _receive of _send_and_receive and the rest of the method; inside grab_one,
\* the statements up to the next transfer
CommandReceive ==
  /\ xpc = "recv"
  /\ \E transfer \in CommandTransfers :
       LET reply == _receive(ReplyCodeOf(xcur), transfer)
           ok == reply.exc = "none"
           inGrab == xcall.op = "grab_one"
           waiting == ok /\ inGrab /\ xcur = "get_status"
                         /\ StillInProgress(transfer.payload)
       IN  /\ dev' = [dev EXCEPT !.sent = dev.sent + 1,
                                 !.rx = Rx(ReplyCodeOf(xcur), transfer)]
           /\ ep_in' = IF ep_in # << >> THEN Tail(ep_in) ELSE ep_in
           /\ awaiting' = IF transfer.usb_error THEN awaiting
                          ELSE Answered(awaiting, transfer.code)
           /\ capture' = IF xcur = "get_status" /\ ep_in = << >> /\ capture.left > 0
                         THEN [capture EXCEPT
                                !.left = @ - 1,
                                !.busy = IF capture.left = 1
                                         THEN Status_in_progress ELSE @]
                         ELSE capture
           /\ LET after == IF ok
                            THEN AfterReply(xcur, xcall.arg, transfer.payload, Cached)
                            ELSE Cached
              IN /\ status' = after.status
                 /\ parameters' = after.parameters
                 /\ frame_format' = after.frame_format
                 /\ external_trigger' = after.external_trigger
           /\ polls' = IF ok /\ xcur = "get_status"
                       THEN [polls EXCEPT
                               !.replies = Append(@, transfer.payload.status),
                               !.waits = IF waiting THEN @ + 1 ELSE @,
                               !.frame_calls = IF inGrab /\ ~waiting THEN @ + 1 ELSE @]
                       ELSE polls
           /\ IF ~ok
              THEN /\ xret' = reply
                   /\ xpc' = "ret"
                   /\ UNCHANGED xcur
              ELSE IF ~inGrab
              THEN /\ xret' = Returned(CASE xcur = "get_status" -> status'
                                         [] xcur = "get_parameters" -> parameters'
                                         [] xcur = "get_frame_format" -> frame_format'
                                         [] OTHER -> NoValue)
                   /\ xpc' = "ret"
                   /\ UNCHANGED xcur
              ELSE /\ UNCHANGED xret
                   /\ xcur' = NextInGrabOne(xcur, waiting)
                   /\ xpc' = IF xcur' = "get_raw_frame" THEN "frame" ELSE "send"
  /\ usb_reads' = usb_reads + 1
  /\ UNCHANGED <<xcall, usb_writes>>
  /\ UNCHANGED <<connected, calibration, opc, oexc, flash_read, cal_log, reset_log>>
  /\ UNCHANGED notCmd

\* get_raw_frame has returned or raised: so does the caller's method
CommandFrameReturn ==
  /\ xpc = "frame"
  /\ gpc = "ret"
  /\ xret' = gret
  /\ xpc' = "ret"
  /\ UNCHANGED <<xcall, xcur, polls, capture, ep_in, awaiting, frame_format>>
  /\ UNCHANGED transportVars
  /\ UNCHANGED sessVars
  /\ UNCHANGED notCmd

\* The caller has the value and is ready for its next call.  An exception is
\* not caught by the callers of these methods: it ends the run.
CommandReturn ==
  /\ xpc = "ret"
  /\ xret.exc = "none"
  /\ xpc' = "idle"
  /\ xcall' = NoCommand
  /\ xcur' = "none"
  /\ xret' = Returned(NoValue)
  /\ polls' = NoPolls
  /\ awaiting' = << >>
  /\ usb_writes' = 0
  /\ usb_reads' = 0
  /\ dev' = NoRequest
  /\ gpc' = "idle"
  /\ gcall' = NoFrameCall
  /\ gf' = gfNone
  /\ gret' = Returned(NoValue)
  /\ delivered' = {}
  /\ gfaithful' = TRUE
  /\ shuffled' = FALSE
  /\ UNCHANGED <<capture, ep_in, flash, frame_format>>
  /\ UNCHANGED sessVars
  /\ UNCHANGED <<fpc, fcall, rf, wf, fret, faithful, lastWrite, nWrites>>
  /\ UNCHANGED <<calVars, concVars, irrVars, appVars>>

\* get_raw_frame as called by the method in progress
CommandFrame ==
  /\ xpc = "frame"
  /\ \/ GetRawFrameCall
     \/ GetRawFrameSend
     \/ GetRawFrameReceive
     \/ GetRawFrameReturn

CommandNext ==
  \/ CommandCall
  \/ GrabOneCall
  \/ CommandSend
  \/ SoftwareTrigger
  \/ CommandReceive
  \/ CommandFrame
  \/ CommandFrameReturn
  \/ CommandReturn

\* a session that changes the frame format between captures
FormatNext ==
  \/ FormatCall
  \/ CommandSend
  \/ CommandReceive
  \/ CommandFrame
  \/ CommandFrameReturn
  \/ CommandReturn

\* The flash operations and the commands on one session: the flash
\* operations on a session no command has changed, the commands on a flash
\* no write_flash has changed
CoreNext ==
  \/ /\ CmdAtRest
     /\ SessAtRest
     /\ FlashNext
  \/ /\ fpc = "idle"
     /\ nWrites = 0
     /\ CommandNext

(***************************************************************************)
(* Properties of the commands and of grab_one (SpecGrab, SpecCore)         *)
(***************************************************************************)
\* a get_frame request whose packets have not all been read
FrameOutstanding ==
  IF gpc = "gf_loop" /\ dev.kind = "get_frame" /\ dev.sent < dev.batch THEN 1 ELSE 0

\* C11: at most one request is outstanding at any time: a request whose code
\* has a reply code (set_software_trigger 0x06/0x86 included) has all its
\* replies read before the session sends another request.
C11_OneOutstandingRequest == Len(awaiting) + FrameOutstanding <= 1

\* C11 for every request but set_software_trigger
C11_OneOutstandingRequest_ButTrigger ==
  Len(SelectSeq(awaiting, LAMBDA m : m # "software_trigger")) + FrameOutstanding <= 1

\* the status replies of a capture that is in_progress k times and then idle
RepliesOf(k) ==
  [i \in 1..(k + 1) |-> IF i <= k THEN Status_in_progress ELSE Status_idle]

\* C12: on a device that answers the status requests after the trigger with
\* k times in_progress and then idle, grab_one has waited exactly k times when
\* it calls get_raw_frame, calls it exactly once, and has sent k + 1 status
\* requests, none of them after the idle reply.
C12_GrabOnePolls ==
  /\ xcall.op = "grab_one" =>
       /\ polls.waits <= polls.k
       /\ polls.frame_calls = (IF xcur = "get_raw_frame" THEN 1 ELSE 0)
  /\ (xcall.op = "grab_one" /\ xcur = "get_raw_frame"
        /\ polls.busy = Status_in_progress /\ capture.final = Status_idle) =>
       /\ polls.replies = RepliesOf(polls.k)
       /\ polls.waits = polls.k
       /\ polls.status_requests = polls.k + 1
       /\ polls.frame_calls = 1

\* C12 witness: [in_progress, in_progress, idle], and grab_one has returned
\* the frame
C12_Witness ==
  /\ xcall.op = "grab_one"
  /\ polls.k = 2
  /\ polls.replies = << Status_in_progress, Status_in_progress, Status_idle >>
  /\ polls.waits = 2
  /\ xpc = "ret"
  /\ xret.exc = "none"
  /\ gfaithful
  /\ Len(xret.value) = frame_format.pixels_in_frame - 46

\* the last read delivered a packet whose leading byte is not the reply code
\* _receive was called with
WrongReply(d) ==
  /\ d.rx # NoRx
  /\ ~d.rx.transfer.usb_error
  /\ d.rx.transfer.code # d.rx.correct_reply

\* the step makes the method in progress raise `outcome`
Raises(outcome) ==
  /\ fpc \notin {"idle", "ret"} => (fpc' = "ret" /\ fret' = outcome)
  /\ gpc \notin {"idle", "ret"} => (gpc' = "ret" /\ gret' = outcome)
  /\ xpc \in {"send", "recv"} => (xpc' = "ret" /\ xret' = outcome)

\* one device.read
OneRead == usb_reads' = usb_reads + 1

\* C13: a receive is one read; when the packet it reads has another leading
\* byte than the expected reply code the method raises OSError("Incorrect
\* reply ..."), returns no value, and status, frames_in_mem, parameters,
\* frame_format, the frame buffer and the flash buffer are as they were.
C13_WrongReplyRejected ==
  [][(OneRead /\ WrongReply(dev')) =>
       /\ Raises(Raised("OSError", MSG_REPLY))
       /\ status' = status
       /\ parameters' = parameters
       /\ frame_format' = frame_format
       /\ external_trigger' = external_trigger
       /\ gf'.frame_buffer = gf.frame_buffer
       /\ rf'.buffer = << >>]_vars

\* C13 witness: get_parameters read a packet with another code, carrying
\* other parameters than the cached ones
C13_Witness ==
  /\ xcall.op = "get_parameters"
  /\ usb_reads = 1
  /\ WrongReply(dev)
  /\ ParametersFromBytes(dev.rx.transfer.payload) # parameters
  /\ xpc = "ret"
  /\ xret = Raised("OSError", MSG_REPLY)

\* device.write raised: the device has not got the request
SendFailed == usb_writes' = usb_writes + 1 /\ dev' = dev

\* device.read raised
ReadFailed == OneRead /\ dev'.rx.transfer.usb_error

\* some method has raised
HasRaised ==
  \/ fpc = "ret" /\ fret.exc # "none"
  \/ gpc = "ret" /\ gret.exc # "none"
  \/ xpc = "ret" /\ xret.exc # "none"

\* C14: when a send or a receive fails inside a method, the method raises the
\* OSError to its caller, and once a method has raised no further write or
\* read is made: no packet, batch, chunk or method is tried again.
C14_NeverRetries ==
  [][/\ SendFailed => Raises(Raised("OSError", MSG_WRITE))
     /\ ReadFailed => Raises(Raised("OSError", MSG_READ))
     /\ HasRaised =>
          /\ usb_writes' = usb_writes
          /\ usb_reads' = usb_reads
          /\ HasRaised'
          /\ fret' = fret
          /\ gret' = gret
          /\ xpc = "ret" => xret' = xret]_vars

\* C14 witness: grab_one's second status read timed out; one set_parameters,
\* one clear_memory, one trigger and two status requests were written
C14_Witness ==
  /\ xcall.op = "grab_one"
  /\ xpc = "ret"
  /\ xret = Raised("OSError", MSG_READ)
  /\ polls.status_requests = 2
  /\ polls.waits = 1
  /\ usb_writes = 5
  /\ usb_reads = 4

\* the requests of a grab_one that has sent n of them
GrabOneRequests(n) ==
  [i \in 1..n |-> CASE i = 1 -> "set_parameters"
                    [] i = 2 -> "clear_memory"
                    [] i = 3 -> "software_trigger"
                    [] OTHER -> "get_status"]

\* the get_frame request of the call in progress has been written
FrameRequested == dev.kind = "get_frame"

\* C24: the requests a grab_one has written are, in this order,
\* set_parameters, clear_memory, the software trigger and then status
\* requests only; when its get_frame request is written the trigger has been
\* sent and at least one status request has been answered.
C24_GrabOneOrder ==
  xcall.op = "grab_one" =>
    /\ polls.requests = GrabOneRequests(Len(polls.requests))
    /\ FrameRequested =>
         /\ Len(polls.requests) >= 4
         /\ Len(polls.replies) >= 1

\* C24 witness: the get_frame request of a grab_one is written after
\* set_parameters, clear_memory, the trigger and two status requests
C24_Witness ==
  /\ xcall.op = "grab_one"
  /\ FrameRequested
  /\ polls.requests = GrabOneRequests(5)
  /\ polls.replies = << Status_in_progress, Status_idle >>

\* C25: a grab_one on a session whose external_trigger flag is set writes no
\* software-trigger request.
C25_NoSoftwareTriggerWhenExternal ==
  (xcall.op = "grab_one" /\ external_trigger) =>
    \A i \in DOMAIN polls.requests : polls.requests[i] # "software_trigger"

\* a flag of the IntFlag Status is set in the value s
HasFlag(s, flag) == (s \div flag) % 2 = 1

\* C26: when grab_one calls get_raw_frame, the last status reply has the
\* in_progress flag clear, whatever the other flags are.
C26_FrameOnlyWhenNotInProgress ==
  (xcall.op = "grab_one" /\ xcur = "get_raw_frame") =>
    /\ polls.replies # << >>
    /\ ~HasFlag(polls.replies[Len(polls.replies)], Status_in_progress)

\* C26, for a device that never reports in_progress together with another
\* flag: then the frame is read only after a reply without in_progress
C26_FrameOnlyWhenNotInProgress_PlainBusy ==
  (xcall.op = "grab_one" /\ xcur = "get_raw_frame"
     /\ polls.busy = Status_in_progress) =>
    /\ polls.replies # << >>
    /\ ~HasFlag(polls.replies[Len(polls.replies)], Status_in_progress)

\* the status replies of the grab_one in progress were all in_progress
AllInProgress ==
  \A i \in DOMAIN polls.replies : polls.replies[i] = Status_in_progress

\* C27: in grab_one, every in_progress reply is followed by a sleep and
\* another status request, however many there were; no status request and
\* no sleep follows a reply that is not in_progress; and once the polling
\* has begun grab_one ends, with the frame or with an exception.
C27_WaitLoop ==
  /\ [](xcall.op = "grab_one" =>
          /\ (xcur = "get_status" /\ xpc \in {"send", "recv"}) =>
               /\ AllInProgress
               /\ polls.waits = Len(polls.replies)
          /\ xcur = "get_raw_frame" =>
               /\ polls.replies # << >>
               /\ polls.replies[Len(polls.replies)] # Status_in_progress
               /\ polls.waits = Len(polls.replies) - 1)
  /\ (xcall.op = "grab_one" /\ xcur = "get_status") ~> (xpc = "ret")

\* C27 witness: MaxBusy in_progress replies, each followed by a sleep, and
\* the next status request is on its way
C27_Witness ==
  /\ xcall.op = "grab_one"
  /\ xcur = "get_status"
  /\ xpc = "recv"
  /\ polls.waits = MaxBusy
  /\ polls.status_requests = MaxBusy + 1
  /\ Len(polls.replies) = MaxBusy
  /\ AllInProgress

\* C28: no step of get_status, called alone or by grab_one, answered or
\* not, changes parameters, frame_format, calibration, connected or
\* external_trigger; and it assigns status only from a reply it accepted.
C28_GetStatusFrame ==
  [][xcur = "get_status" =>
       /\ UNCHANGED <<parameters, frame_format, calibration, connected,
                      external_trigger>>
       /\ status' # status => xret'.exc = "none"]_vars

\* C28 witness: get_status has returned on a session with the external
\* trigger on, and has changed status and frames_in_mem
C28_Witness ==
  /\ xcall.op = "get_status"
  /\ xpc = "ret"
  /\ xret.exc = "none"
  /\ external_trigger
  /\ status = [status |-> Status_memory_full, frames_in_mem |-> 1]

\* the exposure the cached parameters stand for on the wire
CachedExposure == ParametersToBytes(parameters).exp_10s_of_us

\* C29: when set_exposure_ms has ended, by its return or by its exception,
\* the cached exposure_time_ms is the exposure last written to the device.
C29_ExposureConsistent ==
  (xcall.op = "set_exposure_ms" /\ xpc = "ret") =>
    CachedExposure = capture.exp_10s_of_us

\* C29, for the calls whose request was written: the request carries the
\* u32 of exposure_ms * 100 and nothing else, the device has it, and of the
\* cached parameters only exposure_time_ms differs from before the call
C29_ExposureConsistent_WhenWritten ==
  (xcall.op = "set_exposure_ms" /\ polls.requests = << "set_exposure_ms" >>) =>
    /\ RequestPayload("set_exposure_ms") = xcall.arg * 100
    /\ capture.exp_10s_of_us = xcall.arg * 100
    /\ CachedExposure = capture.exp_10s_of_us
    /\ parameters = WithExposure(ParametersFromBytes(CHOOSE r \in ParameterReplies : TRUE),
                                 xcall.arg)

\* C30: when get_raw_frame has sized its buffer and written its get_frame
\* request, the cached frame_format.pixels_in_frame is the pixels_in_frame of
\* the device.
C30_FrameSizedAsDevice ==
  (gpc = "gf_loop" /\ FrameRequested) =>
    /\ gf.pixels_in_frame = frame_format.pixels_in_frame
    /\ frame_format.pixels_in_frame = capture.format.pixels_in_frame

\* C30, on a session that has not written a set_frame_format request since
\* the format was last read
C30_FrameSizedAsDevice_FormatRead ==
  (gpc = "gf_loop" /\ FrameRequested /\ frame_format = capture.format) =>
    gf.pixels_in_frame = capture.format.pixels_in_frame

(***************************************************************************)
(* Two threads on one session                                              *)
(*                                                                         *)
(* The threads call get_status and get_raw_frame on the same LR1.  The     *)
(* device answers every request it is written with the packets of its      *)
(* reply, queued on EP_IN in the order of the requests; device.read takes  *)
(* the oldest queued packet, whoever calls it.  The device is without      *)
(* fault here: every request is answered in full, so that a thread waiting *)
(* in device.read always finds a packet and no read times out.             *)
(***************************************************************************)
Threads == {1, 2}
ConcOps == {"get_status", "get_raw_frame"}
MaxConcCalls == 2

thIdle == [pc |-> "idle", op |-> "none", n |-> 0, g |-> gfNone,
           ret |-> NoException]

ConcInit ==
  /\ th = [t \in Threads |-> thIdle]
  /\ inq = << >>
  /\ taken = {}

ConcAtRest == ConcInit

\* the call a thread is in
CallOf(t) == << t, th[t].n >>

\* the packets the device queues for a request
DeviceReply(op, call, packets_to_get) ==
  IF op = "get_status"
  THEN << [for |-> call, pkt |-> Packet(REPLY_status, 0, 0, << 0, 0 >>)] >>
  ELSE [j \in 1..packets_to_get |->
          [for |-> call,
           pkt |-> Packet(REPLY_get_frame, (j - 1) * NUM_OF_PIXELS_IN_PACKET,
                          packets_to_get - j, FramePixels(j - 1))]]

\* a thread enters an operation; get_raw_frame computes packets_to_get
ConcCall(t) ==
  /\ th[t].pc = "idle"
  /\ th[t].n < MaxConcCalls
  /\ \E op \in ConcOps :
       LET pixels_in_frame == frame_format.pixels_in_frame
           packets_to_get == PacketsToGet(pixels_in_frame)
           g == IF op = "get_raw_frame"
                THEN [gfNone EXCEPT !.pixels_in_frame = pixels_in_frame,
                                    !.packets_to_get = packets_to_get]
                ELSE gfNone
       IN  th' = [th EXCEPT ![t] =
                    IF op = "get_raw_frame" /\ packets_to_get > MAX_PACKETS_IN_FRAME
                    THEN [pc |-> "ret", op |-> op, n |-> th[t].n + 1, g |-> g,
                          ret |-> Raised("ValueError", MSG_TOO_MANY)]
                    ELSE [pc |-> "send", op |-> op, n |-> th[t].n + 1, g |-> g,
                          ret |-> NoException]]
  /\ UNCHANGED <<inq, taken, status>>
  /\ UNCHANGED notConc

\* send(report): the device queues its reply
ConcSend(t) ==
  /\ th[t].pc = "send"
  /\ inq' = inq \o DeviceReply(th[t].op, CallOf(t), th[t].g.packets_to_get)
  /\ th' = [th EXCEPT ![t].pc = "recv",
                      ![t].g = IF th[t].op = "get_raw_frame"
                               THEN [@ EXCEPT !.frame_buffer = Zeros(th[t].g.pixels_in_frame),
                                              !.packets_remaining = MAX_PACKETS_IN_FRAME,
                                              !.packets_received = 0]
                               ELSE @]
  /\ UNCHANGED <<taken, status>>
  /\ UNCHANGED notConc

\* _receive: device.read takes the oldest packet queued
ConcReceive(t) ==
  /\ th[t].pc = "recv"
  /\ inq # << >>
  /\ LET head == Head(inq)
     IN  /\ inq' = Tail(inq)
         /\ taken' = taken \cup {<< CallOf(t), head.for >>}
         /\ IF th[t].op = "get_status"
            THEN LET reply == _receive(REPLY_status, head.pkt)
                 IN  IF reply.exc # "none"
                     THEN /\ th' = [th EXCEPT ![t].pc = "ret", ![t].ret = reply]
                          /\ UNCHANGED status
                     ELSE /\ status' = [status |-> head.pkt.payload[1],
                                        frames_in_mem |-> head.pkt.payload[2]]
                          /\ th' = [th EXCEPT ![t].pc = "ret",
                                              ![t].ret = Returned(head.pkt.payload[1])]
            ELSE LET step == GetRawFrameProcess(th[t].g, head.pkt)
                 IN  /\ UNCHANGED status
                     /\ IF step.out.exc # "none"
                        THEN th' = [th EXCEPT ![t].pc = "ret", ![t].g = step.g,
                                              ![t].ret = step.out]
                        ELSE IF step.g.packets_remaining > 0
                        THEN th' = [th EXCEPT ![t].g = step.g]
                        ELSE th' = [th EXCEPT ![t].pc = "ret", ![t].g = step.g,
                                      ![t].ret = Returned(Slice(step.g.frame_buffer, 32,
                                                     step.g.pixels_in_frame - 14))]
  /\ UNCHANGED notConc

\* the operation is over, with its value or its exception, and the thread
\* goes on
ConcReturn(t) ==
  /\ th[t].pc = "ret"
  /\ th' = [th EXCEPT ![t].pc = "idle", ![t].op = "none", ![t].g = gfNone,
                      ![t].ret = NoException]
  /\ UNCHANGED <<inq, taken, status>>
  /\ UNCHANGED notConc

ConcNext ==
  \E t \in Threads :
    \/ ConcCall(t)
    \/ ConcSend(t)
    \/ ConcReceive(t)
    \/ ConcReturn(t)

(***************************************************************************)
(* Properties of two threads on one session                                *)
(***************************************************************************)
\* a thread has sent its request and not yet read its last packet
Exchanging(t) == th[t].pc = "recv"

\* C10: the packet exchanges of two threads on one session do not interleave,
\* and every reply packet is read by the call that sent the request it
\* answers.
C10_ExchangesSerialized ==
  /\ ~(Exchanging(1) /\ Exchanging(2))
  /\ \A p \in taken : p[1] = p[2]

\* C10, the second half alone: no packet is read by another call than the one
\* it answers
C10_RepliesReachTheirCall == \A p \in taken : p[1] = p[2]

(***************************************************************************)
(* apply_irradiance_calibration                                            *)
(*                                                                         *)
(* A numpy float is the rational it stands for, n / d in lowest terms;     *)
(* d = 0 is inf (n = 1 or -1) or nan (n = 0), which numpy returns for a    *)
(* division by zero.  The values tried are such that every product and     *)
(* quotient is a dyadic rational of a few bits: float64 has it exactly.    *)
(***************************************************************************)
MSG_NONE_IRR_NORM == "'NoneType' object has no attribute 'irr_norm'"
MSG_BROADCAST == "operands could not be broadcast together"

Abs(x) == IF x < 0 THEN -x ELSE x
Sign(x) == IF x < 0 THEN -1 ELSE IF x > 0 THEN 1 ELSE 0

RECURSIVE GCD(_, _)
GCD(a, b) == IF b = 0 THEN a ELSE GCD(b, a % b)

Rat(n, d) ==
  IF d = 0 THEN [n |-> Sign(n), d |-> 0]
  ELSE LET g == GCD(Abs(n), Abs(d))
       IN  [n |-> Sign(d) * (n \div g), d |-> Abs(d) \div g]

RatMul(a, b) == Rat(a.n * b.n, a.d * b.d)
RatDiv(a, b) == Rat(a.n * b.d, a.d * b.n)

\* the float of a value kept in units of 1 / ONE, and of an integer
FloatValue(x) == Rat(x, ONE)
IntValue(x) == Rat(x, 1)

\* an array of one value and its length
Array(n, v) == [n |-> n, v |-> v]

\* numpy's binary operations on two arrays: element by element when the
\* lengths agree, one element against all when a length is 1, ValueError
\* otherwise
Broadcast(op, a, b) ==
  LET Op(x, y) == IF op = "multiply" THEN RatMul(x, y) ELSE RatDiv(x, y)
  IN  IF a.n = b.n
      THEN Returned(Array(a.n, [i \in 1..a.n |-> Op(a.v[i], b.v[i])]))
      ELSE IF b.n = 1
      THEN Returned(Array(a.n, [i \in 1..a.n |-> Op(a.v[i], b.v[1])]))
      ELSE IF a.n = 1
      THEN Returned(Array(b.n, [i \in 1..b.n |-> Op(a.v[1], b.v[i])]))
      ELSE Raised("ValueError", MSG_BROADCAST)

\* array * scalar
Scaled(a, x) == Array(a.n, [i \in 1..a.n |-> RatMul(a.v[i], x)])

\* the calibration arrays and the spectrum as arrays of floats
FloatArray(values) ==
  LET n == Len(values) IN Array(n, [i \in 1..n |-> FloatValue(values[i])])
IntArray(values) ==
  LET n == Len(values) IN Array(n, [i \in 1..n |-> IntValue(values[i])])

\* the calibration applied with the internal arrays, six values longer
apply_irradiance_calibration_Untrimmed(raw_spectra, cal, params) ==
  IF cal = None THEN Raised("AttributeError", MSG_NONE_IRR_NORM)
  ELSE
    LET product == Broadcast("multiply", IntArray(raw_spectra), FloatArray(cal._irr_norm))
        divisor == Scaled(Scaled(FloatArray(cal._prnu_norm),
                                 FloatValue(cal.irr_scaler)),
                          RatMul(FloatValue(params.exposure_time_ms), IntValue(100)))
        quotient == Broadcast("divide", product.value, divisor)
    IN  IF product.exc # "none" THEN product
        ELSE IF quotient.exc # "none" THEN quotient
        ELSE Returned(quotient.value.v)

\* np.multiply(raw_spectra, self.calibration.irr_norm)
\*   / (self.calibration.prnu_norm * self.calibration.irr_scaler
\*      * (self.parameters.exposure_time_ms * 100))
\* self.calibration.irr_norm is the first attribute read: on None it raises
\* AttributeError
apply_irradiance_calibration(raw_spectra, cal, params) ==
  IF cal = None THEN Raised("AttributeError", MSG_NONE_IRR_NORM)
  ELSE
    LET product == Broadcast("multiply", IntArray(raw_spectra), FloatArray(irr_norm(cal)))
        divisor == Scaled(Scaled(FloatArray(prnu_norm(cal)),
                                 FloatValue(cal.irr_scaler)),
                          RatMul(FloatValue(params.exposure_time_ms), IntValue(100)))
        quotient == Broadcast("divide", product.value, divisor)
    IN  IF product.exc # "none" THEN product
        ELSE IF quotient.exc # "none" THEN quotient
        ELSE Returned(quotient.value.v)

\* pixels of the frame get_raw_frame returns on the device the calibration
\* is for, and on a device with a frame of 75 pixels
SpectrumPixels == 3648
ShortSpectrumPixels == 29

\* a sequence of n values, a at the odd and b at the even positions
Alternating(n, a, b) == [i \in 1..n |-> IF i % 2 = 1 THEN a ELSE b]

\* the spectra tried
RawSpectra ==
  {Alternating(SpectrumPixels, 1000, 1000),
   Alternating(SpectrumPixels, 1000, 2000),
   Alternating(SpectrumPixels, 0, 500),
   Alternating(ShortSpectrumPixels, 1000, 1000)}

\* the internal array of a calibration: the values and six more
Internal(values) == values \o [i \in 1..6 |-> 0]

\* The calibrations tried: a parsed one with irr_scaler and the arrays
\* replaced, flat or alternating between a value and its double.
IrrCalibrations ==
  LET parsed == from_bytes(BlobRaw(DefaultBlob)).value
  IN  {[parsed EXCEPT
          !.irr_scaler = scaler,
          !._irr_norm = Internal(Alternating(SpectrumPixels, irr, step * irr)),
          !._prnu_norm = Internal(Alternating(SpectrumPixels, prnu, step * prnu))] :
         irr \in {2 * ONE, ONE \div 2}, prnu \in {ONE, 2 * ONE},
         scaler \in {ONE \div 2, ONE}, step \in {1, 2}}

\* exposure_time_ms of the cached parameters
IrrExposures == {5, 10, 20}

IrrAtRest ==
  /\ ipc = "idle"
  /\ iraw = NoValue
  /\ iret = Returned(NoValue)

IrrInit ==
  /\ ipc = "call"
  /\ iraw \in RawSpectra
  /\ iret = Returned(NoValue)

notIrr == <<transportVars, flashVars, frameVars, calVars, sessVars, concVars, cmdVars, appVars>>

ApplyIrradianceCalibration ==
  /\ ipc = "call"
  /\ iret' = apply_irradiance_calibration(iraw, calibration, parameters)
  /\ ipc' = "ret"
  /\ UNCHANGED iraw
  /\ UNCHANGED notIrr

IrrNext == ApplyIrradianceCalibration

\* v is the float num / den
IsQuotient(v, num, den) == v.d > 0 /\ v.n * den = v.d * num

\* a value kept in units of 1 / ONE that is a whole number of halves, in
\* halves
HALF == ONE \div 2
Halves(x) == x \div HALF

\* C21: on a session with a calibration, for a spectrum as long as the
\* public arrays, the result has that length and element i is
\* raw[i] * irr_norm[i] / (prnu_norm[i] * irr_scaler * exposure_time_ms * 100),
\* with irr_norm and prnu_norm the public arrays and exposure_time_ms the
\* cached one; for raw all 1000, irr_norm all 2.0, prnu_norm all 1.0,
\* irr_scaler 0.5 and 10 ms every element is 4.0.
C21_IrradianceFormula ==
  (ipc = "ret" /\ calibration # None /\ Len(iraw) = SpectrumPixels) =>
    LET irr == irr_norm(calibration)
        prnu == prnu_norm(calibration)
        scaler == calibration.irr_scaler
        exposure == parameters.exposure_time_ms \div ONE
    IN  /\ Len(irr) = SpectrumPixels
        /\ Len(prnu) = SpectrumPixels
        /\ iret.exc = "none"
        /\ Len(iret.value) = SpectrumPixels
        /\ scaler % HALF = 0
        /\ \A i \in 1..SpectrumPixels :
             /\ irr[i] % HALF = 0
             /\ prnu[i] % HALF = 0
             \* raw * (irr / 2) / ((prnu / 2) * (scaler / 2) * exposure * 100)
             /\ IsQuotient(iret.value[i],
                           iraw[i] * Halves(irr[i]) * 2,
                           Halves(prnu[i]) * Halves(scaler) * exposure * 100)
        /\ (/\ iraw = Alternating(SpectrumPixels, 1000, 1000)
            /\ irr = Alternating(SpectrumPixels, 2 * ONE, 2 * ONE)
            /\ prnu = Alternating(SpectrumPixels, ONE, ONE)
            /\ scaler = ONE \div 2
            /\ exposure = 10) =>
             iret.value = Alternating(SpectrumPixels, IntValue(4), IntValue(4))

\* C21 witness: the spectrum of all 1000 corrected to all 4.0
C21_Witness ==
  /\ ipc = "ret"
  /\ calibration # None
  /\ iraw = Alternating(SpectrumPixels, 1000, 1000)
  /\ calibration.irr_scaler = ONE \div 2
  /\ parameters.exposure_time_ms = 10 * ONE
  /\ irr_norm(calibration) = Alternating(SpectrumPixels, 2 * ONE, 2 * ONE)
  /\ prnu_norm(calibration) = Alternating(SpectrumPixels, ONE, ONE)
  /\ iret = Returned(Alternating(SpectrumPixels, IntValue(4), IntValue(4)))

\* C22: on a session whose calibration is None the call raises the
\* calibration-unavailable error.
C22_CalibrationUnavailable ==
  (ipc = "ret" /\ calibration = None) => iret.exc = "CalibrationUnavailable"

\* C22, as the code has it: the call raises the AttributeError of the None
\* it reads irr_norm from, returns no spectrum and changes nothing of the
\* session
C22_CalibrationUnavailable_AttributeError ==
  [][(ipc = "call" /\ calibration = None) =>
       /\ iret' = Raised("AttributeError", MSG_NONE_IRR_NORM)
       /\ UNCHANGED notIrr]_vars

(***************************************************************************)
(* The controller (main.py, class RPIController): the operation thread,    *)
(* the stop flag, and the pump, relay and boost outputs.  A thread runs    *)
(* one of the four sequences; the callers are the handlers of the UI's     *)
(* start and abort requests.                                               *)
(***************************************************************************)
MaxOperations == 2
MaxCycles == 2
MaxSparks == 2

Operations == 1..MaxOperations

\* the handlers of the UI's requests that can run at the same time
Callers == {1, 2}

Sequences ==
  {"run_scan_sequence", "run_clean_sequence", "run_pm_sequence",
   "run_hourly_monitoring_sequence"}

\* start_scan(duration, sparks, cycles), start_clean(sparks),
\* start_pm(sparks, threshold, pm_type), start_hourly_monitoring(), the
\* hourly sparks being config.get('hourly_sparks', 15)
StartCalls ==
  {[target |-> "run_scan_sequence", cycles |-> c, sparks |-> s] :
     c \in {1, MaxCycles}, s \in {1, MaxSparks}}
  \cup {[target |-> g, cycles |-> 0, sparks |-> s] :
          g \in {"run_clean_sequence", "run_pm_sequence"}, s \in {1, MaxSparks}}
  \cup {[target |-> "run_hourly_monitoring_sequence", cycles |-> 0,
         sparks |-> MaxSparks]}

NoStart == [target |-> "none", cycles |-> 0, sparks |-> 0]

\* a caller between two requests, menu being the sequences it asks for
Idle(menu) == [pc |-> "idle", call |-> NoStart, menu |-> menu]

\* a caller that makes no request
Off == [pc |-> "off", call |-> NoStart, menu |-> {}]

\* a threading.Thread not created yet.  aborted, late and error record what
\* happened to the thread: whether abort_operation set the stop flag while
\* it was alive (before or after the sequence began to execute), whether it
\* turned the pump or the boost on after that, and whether an exception was
\* caught in it or ended it
NoOperation ==
  [state |-> "unborn", call |-> NoStart, pc |-> "none", cycle |-> 0, spark |-> 0,
   aborted |-> "no", late |-> FALSE, error |-> "none"]

\* self.operation_thread and self.operation_thread.is_alive()
OperationAlive ==
  operation_thread # 0 /\ ops[operation_thread].state = "alive"

CtlAtRest ==
  /\ operation_thread = 0
  /\ stop_operation = FALSE
  /\ pump = FALSE
  /\ relay = FALSE
  /\ boost = FALSE
  /\ ops = [t \in Operations |-> NoOperation]
  /\ ui = [h \in Callers |-> Off]

\* RPIController.__init__ has run, with callers 1..n asking for the
\* sequences of menu
CtlInitOf(n, menu) ==
  /\ operation_thread = 0
  /\ stop_operation = FALSE
  /\ pump = FALSE
  /\ relay = FALSE
  /\ boost = FALSE
  /\ ops = [t \in Operations |-> NoOperation]
  /\ ui = [h \in Callers |-> IF h <= n THEN Idle(menu) ELSE Off]

\* the thread's function has returned or raised
Ended(o, error) ==
  [o EXCEPT !.state = "dead", !.pc = "none", !.cycle = 0, !.spark = 0,
            !.error = error]

\* the thread turns an output on
TurningOn(o) == [o EXCEPT !.late = (o.late \/ o.aborted # "no")]

\* an exception inside a sequence: the hourly loop catches it, it ends the
\* thread of any other sequence
Failing(o) ==
  IF o.call.target = "run_hourly_monitoring_sequence"
  THEN [o EXCEPT !.pc = "except", !.error = "caught"]
  ELSE Ended(o, "uncaught")

(***************************************************************************)
(* start_operation and abort_operation                                     *)
(***************************************************************************)
\* `if self.operation_thread and self.operation_thread.is_alive(): return False`
StartOperationCheck(h) ==
  /\ ui[h].pc = "idle"
  /\ Cardinality({t \in Operations : ops[t].state = "unborn"})
       > Cardinality({g \in Callers : ui[g].pc \in {"clear", "thread"}})
  /\ ~OperationAlive
  /\ \E call \in StartCalls :
       /\ call.target \in ui[h].menu
       /\ ui' = [ui EXCEPT ![h].pc = "clear", ![h].call = call]
  /\ UNCHANGED <<operation_thread, stop_operation, pump, relay, boost, ops>>
  /\ UNCHANGED notCtl

\* self.stop_operation.clear()
StartOperationClear(h) ==
  /\ ui[h].pc = "clear"
  /\ stop_operation' = FALSE
  /\ ui' = [ui EXCEPT ![h].pc = "thread"]
  /\ UNCHANGED <<operation_thread, pump, relay, boost, ops>>
  /\ UNCHANGED notCtl

\* a thread that has ended, what happened to it forgotten but its error
Forgotten(o) ==
  IF o.state = "dead"
  THEN [NoOperation EXCEPT !.state = "dead", !.error = o.error]
  ELSE o

\* self.operation_thread = threading.Thread(...); .start(); return True
StartOperationThread(h) ==
  /\ ui[h].pc = "thread"
  /\ LET t == CHOOSE t \in Operations :
                /\ ops[t].state = "unborn"
                /\ \A u \in Operations : ops[u].state = "unborn" => t <= u
     IN  /\ operation_thread' = t
         /\ ops' = [u \in Operations |->
                      IF u = t
                      THEN [NoOperation EXCEPT !.state = "alive",
                                               !.call = ui[h].call,
                                               !.pc = "begin"]
                      ELSE Forgotten(ops[u])]
  /\ ui' = [ui EXCEPT ![h] = Idle(ui[h].menu)]
  /\ UNCHANGED <<stop_operation, pump, relay, boost>>
  /\ UNCHANGED notCtl

\* abort_operation: `if self.operation_thread and self.operation_thread.is_alive():`
AbortOperationCheck(h) ==
  /\ ui[h].pc = "idle"
  /\ OperationAlive
  /\ ui' = [ui EXCEPT ![h].pc = "set"]
  /\ UNCHANGED <<operation_thread, stop_operation, pump, relay, boost, ops>>
  /\ UNCHANGED notCtl

\* where the thread was when the stop flag was set
AbortedAt(o) == IF o.pc = "begin" THEN "before_begin" ELSE "running"

\* self.stop_operation.set(); eel.update_ui('STOPPED')()
AbortOperationSet(h) ==
  /\ ui[h].pc = "set"
  /\ stop_operation' = TRUE
  /\ ops' = IF OperationAlive /\ ops[operation_thread].aborted = "no"
            THEN [ops EXCEPT ![operation_thread].aborted =
                               AbortedAt(ops[operation_thread])]
            ELSE ops
  /\ ui' = [ui EXCEPT ![h] = Idle(ui[h].menu)]
  /\ UNCHANGED <<operation_thread, pump, relay, boost>>
  /\ UNCHANGED notCtl

(***************************************************************************)
(* The sequences, one step at a time                                       *)
(***************************************************************************)
\* the first statement of every run_*_sequence: self.stop_operation.clear()
RunBegin(t) ==
  /\ ops[t].state = "alive"
  /\ ops[t].pc = "begin"
  /\ stop_operation' = FALSE
  /\ ops' = [ops EXCEPT ![t] =
       CASE ops[t].call.target = "run_scan_sequence" ->
              [ops[t] EXCEPT !.pc = "cycle", !.cycle = 1]
         [] ops[t].call.target = "run_clean_sequence" ->
              [ops[t] EXCEPT !.pc = "spark", !.spark = 1]
         [] ops[t].call.target = "run_pm_sequence" ->
              [ops[t] EXCEPT !.pc = "pm_loop"]
         [] OTHER -> [ops[t] EXCEPT !.pc = "hourly_loop"]]
  /\ UNCHANGED <<operation_thread, pump, relay, boost, ui>>
  /\ UNCHANGED notCtl

\* run_scan_sequence: `for cycle in range(1, cycles + 1):` and the break
ScanCycle(t) ==
  /\ ops[t].state = "alive"
  /\ ops[t].pc = "cycle"
  /\ ops' = [ops EXCEPT ![t].pc =
       IF ops[t].cycle > ops[t].call.cycles \/ stop_operation
       THEN "finish" ELSE "pump_on"]
  /\ UNCHANGED <<operation_thread, stop_operation, pump, relay, boost, ui>>
  /\ UNCHANGED notCtl

\* self.set_pump(True)
ScanPumpOn(t) ==
  /\ ops[t].state = "alive"
  /\ ops[t].pc = "pump_on"
  /\ pump' = TRUE
  /\ ops' = [ops EXCEPT ![t] = [TurningOn(ops[t]) EXCEPT !.pc = "pumping"]]
  /\ UNCHANGED <<operation_thread, stop_operation, relay, boost, ui>>
  /\ UNCHANGED notCtl

\* the pump stage: the loop is left when the stop flag is seen or when the
\* time is over
ScanPumping(t) ==
  /\ ops[t].state = "alive"
  /\ ops[t].pc = "pumping"
  /\ pump' = FALSE
  /\ \/ /\ stop_operation
        /\ ops' = [ops EXCEPT ![t] = Ended(ops[t], ops[t].error)]
     \/ ops' = [ops EXCEPT ![t] = [ops[t] EXCEPT !.pc = "spark", !.spark = 1]]
  /\ UNCHANGED <<operation_thread, stop_operation, relay, boost, ui>>
  /\ UNCHANGED notCtl

\* `for spark in range(1, sparks + 1): if self.stop_operation.is_set(): return`
\* and what follows the loop in each sequence
SparkStageOf(o, stop) ==
  IF o.spark > o.call.sparks
  THEN CASE o.call.target = "run_scan_sequence" ->
              [o EXCEPT !.pc = "cycle", !.cycle = o.cycle + 1, !.spark = 0]
         [] o.call.target = "run_clean_sequence" -> [o EXCEPT !.pc = "finish", !.spark = 0]
         [] o.call.target = "run_pm_sequence" -> [o EXCEPT !.pc = "pm_loop", !.spark = 0]
         [] OTHER -> [o EXCEPT !.pc = "hourly_wait", !.spark = 0]
  ELSE IF stop THEN Ended(o, o.error)
  ELSE [o EXCEPT !.pc = "boost_on"]

SparkStage(t) ==
  /\ ops[t].state = "alive"
  /\ ops[t].pc = "spark"
  /\ ops' = [ops EXCEPT ![t] = SparkStageOf(ops[t], stop_operation)]
  /\ UNCHANGED <<operation_thread, stop_operation, pump, relay, boost, ui>>
  /\ UNCHANGED notCtl

\* _execute_spark_sequence: self.set_boost(True)
SparkBoostOn(t) ==
  /\ ops[t].state = "alive"
  /\ ops[t].pc = "boost_on"
  /\ boost' = TRUE
  /\ ops' = [ops EXCEPT ![t] = [TurningOn(ops[t]) EXCEPT !.pc = "relay_on"]]
  /\ UNCHANGED <<operation_thread, stop_operation, pump, relay, ui>>
  /\ UNCHANGED notCtl

\* self.set_relay(True): lgpio.gpio_write returns or raises
SparkRelayOn(t) ==
  /\ ops[t].state = "alive"
  /\ ops[t].pc = "relay_on"
  /\ \/ /\ relay' = TRUE
        /\ ops' = [ops EXCEPT ![t].pc = "spark_off"]
     \/ /\ ops' = [ops EXCEPT ![t] = Failing(ops[t])]
        /\ UNCHANGED relay
  /\ UNCHANGED <<operation_thread, stop_operation, pump, boost, ui>>
  /\ UNCHANGED notCtl

\* time.sleep(4); self.set_relay(False); self.set_boost(False)
SparkOff(t) ==
  /\ ops[t].state = "alive"
  /\ ops[t].pc = "spark_off"
  /\ relay' = FALSE
  /\ boost' = FALSE
  /\ ops' = [ops EXCEPT ![t] = [ops[t] EXCEPT !.pc = "spark",
                                              !.spark = ops[t].spark + 1]]
  /\ UNCHANGED <<operation_thread, stop_operation, pump, ui>>
  /\ UNCHANGED notCtl

\* run_pm_sequence: `while not self.stop_operation.is_set():` and a reading
\* at or above the threshold
PmLoop(t) ==
  /\ ops[t].state = "alive"
  /\ ops[t].pc = "pm_loop"
  /\ ops' = [ops EXCEPT ![t] =
       IF stop_operation THEN Ended(ops[t], ops[t].error)
       ELSE [ops[t] EXCEPT !.pc = "spark", !.spark = 1]]
  /\ UNCHANGED <<operation_thread, stop_operation, pump, relay, boost, ui>>
  /\ UNCHANGED notCtl

\* run_hourly_monitoring_sequence: `while not self.stop_operation.is_set():`,
\* then the late start or the pumping window
HourlyLoop(t) ==
  /\ ops[t].state = "alive"
  /\ ops[t].pc = "hourly_loop"
  /\ \/ /\ stop_operation
        /\ ops' = [ops EXCEPT ![t] = Ended(ops[t], ops[t].error)]
     \/ /\ ~stop_operation
        /\ \E pc \in {"hourly_wait", "hourly_pump_on"} :
             ops' = [ops EXCEPT ![t].pc = pc]
  /\ UNCHANGED <<operation_thread, stop_operation, pump, relay, boost, ui>>
  /\ UNCHANGED notCtl

\* self.set_pump(True), then eel.update_ui(...)(), which returns or raises
HourlyPumpOn(t) ==
  /\ ops[t].state = "alive"
  /\ ops[t].pc = "hourly_pump_on"
  /\ pump' = TRUE
  /\ \/ ops' = [ops EXCEPT ![t] = [TurningOn(ops[t]) EXCEPT !.pc = "hourly_pumping"]]
     \/ ops' = [ops EXCEPT ![t] = Failing(TurningOn(ops[t]))]
  /\ UNCHANGED <<operation_thread, stop_operation, relay, boost, ui>>
  /\ UNCHANGED notCtl

\* the pumping loop, left when the stop flag is seen or at minute 55
HourlyPumping(t) ==
  /\ ops[t].state = "alive"
  /\ ops[t].pc = "hourly_pumping"
  /\ pump' = FALSE
  /\ \/ /\ stop_operation
        /\ ops' = [ops EXCEPT ![t] = Ended(ops[t], ops[t].error)]
     \/ ops' = [ops EXCEPT ![t] = [ops[t] EXCEPT !.pc = "spark", !.spark = 1]]
  /\ UNCHANGED <<operation_thread, stop_operation, relay, boost, ui>>
  /\ UNCHANGED notCtl

\* the waiting loops, left when the stop flag is seen or at the next hour
HourlyWait(t) ==
  /\ ops[t].state = "alive"
  /\ ops[t].pc = "hourly_wait"
  /\ \/ /\ stop_operation
        /\ ops' = [ops EXCEPT ![t] = Ended(ops[t], ops[t].error)]
     \/ ops' = [ops EXCEPT ![t].pc = "hourly_loop"]
  /\ UNCHANGED <<operation_thread, stop_operation, pump, relay, boost, ui>>
  /\ UNCHANGED notCtl

\* `except Exception as e:` print, time.sleep(300), and the loop goes on
HourlyExcept(t) ==
  /\ ops[t].state = "alive"
  /\ ops[t].pc = "except"
  /\ ops' = [ops EXCEPT ![t].pc = "hourly_loop"]
  /\ UNCHANGED <<operation_thread, stop_operation, pump, relay, boost, ui>>
  /\ UNCHANGED notCtl

\* eel.update_ui('DONE')() and the function returns
RunFinish(t) ==
  /\ ops[t].state = "alive"
  /\ ops[t].pc = "finish"
  /\ ops' = [ops EXCEPT ![t] = Ended(ops[t], ops[t].error)]
  /\ UNCHANGED <<operation_thread, stop_operation, pump, relay, boost, ui>>
  /\ UNCHANGED notCtl

\* the next step of thread t
SequenceStep(t) ==
  \/ RunBegin(t)
  \/ ScanCycle(t)
  \/ ScanPumpOn(t)
  \/ ScanPumping(t)
  \/ SparkStage(t)
  \/ SparkBoostOn(t)
  \/ SparkRelayOn(t)
  \/ SparkOff(t)
  \/ PmLoop(t)
  \/ HourlyLoop(t)
  \/ HourlyPumpOn(t)
  \/ HourlyPumping(t)
  \/ HourlyWait(t)
  \/ HourlyExcept(t)
  \/ RunFinish(t)

\* the next step of caller h
CallerStep(h) ==
  \/ StartOperationCheck(h)
  \/ StartOperationClear(h)
  \/ StartOperationThread(h)
  \/ AbortOperationCheck(h)
  \/ AbortOperationSet(h)

CtlNext ==
  \/ \E h \in Callers : CallerStep(h)
  \/ \E t \in Operations : SequenceStep(t)

\* start requests for the clean sequence, and the threads they start
RaceNext ==
  \/ \E h \in Callers :
        \/ StartOperationCheck(h)
        \/ StartOperationClear(h)
        \/ StartOperationThread(h)
  \/ \E t \in Operations :
        \/ RunBegin(t)
        \/ SparkStage(t)
        \/ SparkBoostOn(t)
        \/ SparkRelayOn(t)
        \/ SparkOff(t)
        \/ RunFinish(t)

(***************************************************************************)
(* Properties of the controller                                            *)
(***************************************************************************)
\* C37: once abort_operation has set the stop flag while an operation thread
\* is alive, that thread turns the pump on no more, starts no further spark
\* sequence and terminates, also when the flag was set right after
\* start_operation, before the sequence began to execute.
C37_AbortStops ==
  /\ [](\A t \in Operations : ~ops[t].late)
  /\ \A t \in Operations : (ops[t].aborted # "no") ~> (ops[t].state = "dead")

\* what holds instead: a thread that had executed the first statement of its
\* sequence when the flag was set terminates
C37_AbortStops_AfterBegin ==
  \A t \in Operations : (ops[t].aborted = "running") ~> (ops[t].state = "dead")

\* C38: at most one operation thread is alive at any time, also when two
\* start requests are handled at the same time.
C38_OneOperationThread ==
  Cardinality({t \in Operations : ops[t].state = "alive"}) <= 1

\* no thread is alive and no exception has ended one
SequencesEnded ==
  /\ \E t \in Operations : ops[t].state = "dead"
  /\ \A t \in Operations : ops[t].state # "alive" /\ ops[t].error # "uncaught"

\* C39: when a sequence has ended, by completion, by abort or after an error
\* caught in the hourly loop, the pump, the relay and the boost output are
\* off.
C39_OutputsOffAtEnd ==
  SequencesEnded => (~pump /\ ~relay /\ ~boost)

\* what holds instead: the outputs are off at the end of the sequences in
\* which no exception was raised
C39_OutputsOffAtEnd_NoError ==
  (SequencesEnded /\ \A t \in Operations : ops[t].error = "none")
    => (~pump /\ ~relay /\ ~boost)

(***************************************************************************)
(* The Google Drive uploads (main.py): trigger_gdrive_upload, called by    *)
(* the UI, and gdrive_upload_scheduler, a thread started at startup        *)
(***************************************************************************)
MaxTriggers == 2
MaxDays == 2

\* the manual requests
Triggers == 1..MaxTriggers

\* a thread outside upload_output_to_gdrive, with the outcome of its last
\* upload or request
Outside(pc, result) == [pc |-> pc, result |-> result]

\* upload_output_to_gdrive, from the folder checks and the zip to the upload
\* and the removal of the zip: where the function is next, "returned" once
\* it has returned.  Its own `except Exception` catches what the steps raise
upload_output_to_gdrive(pc) ==
  IF pc = "zip"
  THEN {Outside("upload", "none"), Outside("returned", "nothing"),
        Outside("returned", "failed")}
  ELSE {Outside("returned", "uploaded"), Outside("returned", "failed")}

\* inside upload_output_to_gdrive
Uploading(thread) == thread.pc \in {"zip", "upload"}

GdAtRest ==
  /\ gdrive_upload_lock = FALSE
  /\ manual = [i \in Triggers |-> Outside("off", "none")]
  /\ scheduler = [pc |-> "off", result |-> "none", uploads |-> 0]

\* the application started: the lock free, the scheduler thread asleep
GdInit ==
  /\ gdrive_upload_lock = FALSE
  /\ manual = [i \in Triggers |-> Outside("idle", "none")]
  /\ scheduler = [pc |-> "sleeping", result |-> "none", uploads |-> 0]

\* gdrive_upload_lock.acquire(blocking=False)
TriggerGdriveUploadOf(held) == ~held

\* trigger_gdrive_upload: with the lock acquired the upload thread is
\* started, without it the request is refused
TriggerGdriveUpload(i) ==
  /\ manual[i].pc = "idle"
  /\ IF TriggerGdriveUploadOf(gdrive_upload_lock)
     THEN /\ gdrive_upload_lock' = TRUE
          /\ manual' = [manual EXCEPT ![i] = Outside("zip", "none")]
     ELSE /\ manual' = [manual EXCEPT ![i] = Outside("idle", "refused")]
          /\ UNCHANGED gdrive_upload_lock
  /\ UNCHANGED scheduler
  /\ UNCHANGED notGd

\* upload_task_with_lock_release: upload_output_to_gdrive() in the try block
ManualUpload(i) ==
  /\ Uploading(manual[i])
  /\ \E next \in upload_output_to_gdrive(manual[i].pc) :
       manual' = [manual EXCEPT ![i] = next]
  /\ UNCHANGED <<gdrive_upload_lock, scheduler>>
  /\ UNCHANGED notGd

\* `finally: gdrive_upload_lock.release()`
ManualRelease(i) ==
  /\ manual[i].pc = "returned"
  /\ gdrive_upload_lock' = FALSE
  /\ manual' = [manual EXCEPT ![i].pc = "idle"]
  /\ UNCHANGED scheduler
  /\ UNCHANGED notGd

\* gdrive_upload_scheduler: time.sleep(sleep_duration) is over and
\* upload_output_to_gdrive() is called
SchedulerWake ==
  /\ scheduler.pc = "sleeping"
  /\ scheduler.uploads < MaxDays
  /\ scheduler' = [scheduler EXCEPT !.pc = "zip", !.result = "none"]
  /\ UNCHANGED <<gdrive_upload_lock, manual>>
  /\ UNCHANGED notGd

\* upload_output_to_gdrive() in the scheduler thread
SchedulerUpload ==
  /\ Uploading(scheduler)
  /\ \E next \in upload_output_to_gdrive(scheduler.pc) :
       scheduler' = [scheduler EXCEPT !.pc = next.pc, !.result = next.result]
  /\ UNCHANGED <<gdrive_upload_lock, manual>>
  /\ UNCHANGED notGd

\* time.sleep(60) and the next turn of `while True:`
SchedulerSleep ==
  /\ scheduler.pc = "returned"
  /\ scheduler' = [scheduler EXCEPT !.pc = "sleeping",
                                    !.uploads = scheduler.uploads + 1]
  /\ UNCHANGED <<gdrive_upload_lock, manual>>
  /\ UNCHANGED notGd

GdNext ==
  \/ \E i \in Triggers :
        \/ TriggerGdriveUpload(i)
        \/ ManualUpload(i)
        \/ ManualRelease(i)
  \/ SchedulerWake
  \/ SchedulerUpload
  \/ SchedulerSleep

\* the threads inside upload_output_to_gdrive
UploadsRunning ==
  Cardinality({i \in Triggers : Uploading(manual[i])})
    + (IF Uploading(scheduler) THEN 1 ELSE 0)

\* C40: at most one upload_output_to_gdrive is running at any time, started
\* by trigger_gdrive_upload or by the scheduler thread, and the upload lock
\* is held only while a manual upload has not yet released it.
C40_OneUpload ==
  /\ UploadsRunning <= 1
  /\ gdrive_upload_lock
       <=> (\E i \in Triggers : manual[i].pc \in {"zip", "upload", "returned"})

\* what holds instead: at most one manual upload is running, and the lock is
\* released after every manual upload
C40_OneUpload_Manual ==
  /\ Cardinality({i \in Triggers : Uploading(manual[i])}) <= 1
  /\ gdrive_upload_lock
       <=> (\E i \in Triggers : manual[i].pc \in {"zip", "upload", "returned"})


\* the controller and the uploads not in use
AppAtRest == CtlAtRest /\ GdAtRest

(***************************************************************************)
(* Specifications                                                          *)
(***************************************************************************)
FrameAtRest ==
  /\ frame_format = FrameFormat(0)
  /\ gpc = "idle"
  /\ gcall = NoFrameCall
  /\ gf = gfNone
  /\ gret = Returned(NoValue)
  /\ delivered = {}
  /\ gfaithful = TRUE
  /\ shuffled = FALSE

\* no frame operation in progress
FrameLocalsAtRest ==
  /\ gpc = "idle"
  /\ gcall = NoFrameCall
  /\ gf = gfNone
  /\ gret = Returned(NoValue)
  /\ delivered = {}
  /\ gfaithful = TRUE
  /\ shuffled = FALSE

InitFlash ==
  TransportInit /\ FlashInit /\ FrameAtRest /\ CalAtRest /\ SessAtRest /\ ConcAtRest /\ IrrAtRest /\ AppAtRest
    /\ CmdAtRest
SpecFlash == InitFlash /\ [][FlashNext]_vars

InitFrame ==
  TransportInit /\ FlashInit /\ FrameInit /\ CalAtRest /\ SessAtRest /\ ConcAtRest /\ IrrAtRest /\ AppAtRest
    /\ CmdAtRest
SpecFrame == InitFrame /\ [][FrameNext]_vars

InitCal ==
  TransportInit /\ FlashInit /\ FrameAtRest /\ CalInit /\ SessAtRest /\ ConcAtRest /\ IrrAtRest /\ AppAtRest
    /\ CmdAtRest
SpecCal == InitCal /\ [][CalNext]_vars

\* a device with some calibration block, and an LR1 just constructed on it
InitOpen ==
  /\ TransportInit /\ FlashInit /\ FrameLocalsAtRest /\ ConcAtRest /\ IrrAtRest /\ AppAtRest /\ CmdAtRest
  /\ frame_format = None
  /\ blob \in CalBlobs
  /\ cpc = "idle" /\ calX = NoValue /\ report = NoReport /\ calY = NoValue
  /\ SessInit
SpecOpen == InitOpen /\ [][OpenNext]_vars

\* the deviations of the calibration block on a device whose reset may fail
MaxResetDeviations == 1
\* opening a session on a device that takes the reset request or not
InitReset == InitOpen /\ Deviations(blob) <= MaxResetDeviations
SpecReset == InitReset /\ [][ResetNext]_vars

\* opening a session on a device with the default calibration block and
\* loading the calibration again
InitReload == InitOpen /\ blob = DefaultBlob
SpecReload == InitReload /\ [][ReloadNext]_vars

\* the same, on devices whose block differs from the default one in at most
\* one respect
InitCapture == InitOpen /\ Deviations(blob) <= 1
SpecCapture == InitCapture /\ [][CaptureNext]_vars

\* an open session with a frame of one or of two packets, and two threads
InitConc ==
  /\ TransportInit /\ FlashInit /\ FrameLocalsAtRest /\ CalAtRest /\ SessAtRest
  /\ CmdAtRest
  /\ frame_format \in {FrameFormat(NUM_OF_PIXELS_IN_PACKET),
                       FrameFormat(NUM_OF_PIXELS_IN_PACKET + 16)}
  /\ ConcInit
  /\ IrrAtRest /\ AppAtRest
SpecConc == InitConc /\ [][ConcNext]_vars

\* an open session with a frame of three packets, between two calls
InitGrab ==
  /\ TransportInit /\ FlashInit /\ FrameLocalsAtRest /\ CalAtRest /\ SessAtRest
  /\ ConcAtRest /\ IrrAtRest /\ AppAtRest
  /\ frame_format \in FrameFormatReplies
  /\ CmdInit
SpecGrab == InitGrab /\ [][CommandNext]_vars
\* grab_one runs in one thread and every device.write and device.read
\* returns or raises within its timeout: a call in progress takes its next
\* step
SpecGrabFair == SpecGrab /\ WF_vars(CommandNext)

\* the same session, and the device's flash as it came
InitCore == InitGrab
InitFormat == InitGrab
SpecFormat == InitFormat /\ [][FormatNext]_vars
SpecCore == InitCore /\ [][CoreNext]_vars

\* apply_irradiance_calibration on an open session, with or without a
\* calibration
InitIrr ==
  /\ TransportInit /\ FlashInit /\ FrameAtRest /\ CalAtRest /\ ConcAtRest /\ CmdAtRest
  /\ IrrInit
  /\ AppAtRest
  /\ connected = TRUE
  /\ status = [status |-> 0, frames_in_mem |-> 0]
  /\ \E exposure_ms \in IrrExposures :
       parameters = WithExposure(ParametersFromBytes(CHOOSE r \in ParameterReplies : TRUE),
                                 exposure_ms)
  /\ calibration \in IrrCalibrations \cup {None}
  /\ external_trigger = FALSE
  /\ opc = "opened"
  /\ oexc = NoException
  /\ flash_read = "none"
  /\ cal_log = None
  /\ reset_log = None
SpecIrr == InitIrr /\ [][IrrNext]_vars

\* the controller with one caller: the requests of the UI one at a time
InitCtl ==
  /\ TransportInit /\ FlashInit /\ FrameAtRest /\ CalAtRest /\ SessAtRest /\ ConcAtRest
  /\ IrrAtRest /\ CmdAtRest /\ GdAtRest
  /\ CtlInitOf(1, Sequences)
SpecCtl == InitCtl /\ [][CtlNext]_vars
\* a started thread is scheduled, and the times its loops wait for come
SpecCtlFair == SpecCtl /\ \A t \in Operations : WF_vars(SequenceStep(t))

\* the manual uploads and the scheduler
InitGd ==
  /\ TransportInit /\ FlashInit /\ FrameAtRest /\ CalAtRest /\ SessAtRest /\ ConcAtRest
  /\ IrrAtRest /\ CmdAtRest /\ CtlAtRest
  /\ GdInit
SpecGd == InitGd /\ [][GdNext]_vars

\* two start requests handled at the same time
InitRace ==
  /\ TransportInit /\ FlashInit /\ FrameAtRest /\ CalAtRest /\ SessAtRest /\ ConcAtRest
  /\ IrrAtRest /\ CmdAtRest /\ GdAtRest
  /\ CtlInitOf(2, {"run_clean_sequence"})
SpecRace == InitRace /\ [][RaceNext]_vars

====
